---- MODULE Spec2Model ----
(***************************************************************************)
(* Model of linkedin-cli: the OAuth callback listener                      *)
(* (startCallbackServer), the credential store and the auth commands of    *)
(* the CLI (login, refresh, logout), and the image-post pipeline of        *)
(* LinkedInClient.                                                         *)
(***************************************************************************)
EXTENDS Integers, Sequences, FiniteSets, TLC

VARIABLES
  \* ---- startCallbackServer: one call of it -------------------------------
  srv,          \* http.Server: "idle" (not created), "listening" (port bound),
                \* "unbound" (listen failed, port never bound), "closed"
  srvPort,      \* the port passed to server.listen
  expected,     \* expectedState
  promise,      \* the returned Promise: [kind, val]
  settledBy,    \* which callback settled the promise: "none", "request", "timer", "error"
  timer,        \* the setTimeout of line 421: "none", "armed", "fired"
  closeCalls,   \* number of server.close() invocations so far
  conns,        \* connections accepted while listening that have not yet sent their request
  deadline,     \* the instant the timer is due
  lastStatus,   \* status code of the last res.writeHead (0: no response yet)
  lastReq,      \* the request the handler ran for last
  \* ---- the CLI process and the credential store --------------------------
  fs,           \* ~/.clawdbot/credentials and ~/.moltbot/credentials
  env,          \* LINKEDIN_CLIENT_ID / LINKEDIN_CLIENT_SECRET are both set
  now,          \* Date.now(), in milliseconds
  pc,           \* position of the running command ("idle": no process running)
  manual,       \* options.manual of the running login
  authState,    \* the value of generateState() of the running login (Null outside)
  urlState,     \* the state parameter embedded in authUrl
  redirectUri,  \* config.redirectUri of the running login, as its parts (<<>> outside)
  code,         \* the authorization code the running login is about to exchange
  fsAtStart,    \* the store as the running command found it
  exitCode,     \* exit code of the last finished command (-1: none yet)
  cmd,          \* the running (or last) command: "none", "login", "refresh", "logout"
  tokenResp,    \* the token endpoint's answer to the running (or last) command
  \* ---- LinkedInClient: one operation -------------------------------------
  op,           \* the running operation and its arguments
  opPc,         \* its position
  reqLog,       \* the upstream requests it has issued, in order
  respLog,      \* what they came back with, in order
  inFlight,     \* number of its requests awaiting a response
  authorUrn,    \* authorUrn / orgUrn
  uploadUrl,    \* uploadUrl of the registration response
  asset,        \* asset of the registration response
  opResult,     \* "none", "ok", "error"
  client,       \* new LinkedInClient(): "none" (not called), "ok" (constructed), or
                \* what it threw: "no_credentials", "expired", "parse_error"
  \* ---- direct calls of the functions oauth.ts exports ---------------------
  prevCall,     \* the call before the last one
  lastCall      \* the last call: [fn, arg, result, before] (before: the store it found)

lvars == <<srv, srvPort, expected, promise, settledBy, timer, closeCalls, conns, deadline, lastStatus, lastReq>>
avars == <<fs, env, now, pc, manual, authState, urlState, redirectUri, code, fsAtStart, exitCode, cmd, tokenResp>>
cvars == <<op, opPc, reqLog, respLog, inFlight, authorUrn, uploadUrl, asset, opResult, client>>
uvars == <<prevCall, lastCall>>
vars  == <<lvars, avars, cvars, uvars>>

\* searchParams.get() returns null for an absent parameter
Null == "<null>"

\* JavaScript truthiness of a string-or-null value
Truthy(s) == s # Null /\ s # ""

-----------------------------------------------------------------------------
\* Bounds

\* connections that can be open at the same time
MaxConns == 2

\* the 5-minute timeout of the callback server, in milliseconds
CallbackTimeoutMs == 5 * 60 * 1000

\* the clock advances in steps of TickMs, up to MaxTicks steps
TicksPerTimeout == 2
TickMs == CallbackTimeoutMs \div TicksPerTimeout
MaxTicks == 4
MaxTime == MaxTicks * TickMs

Ports == {4002, 4003}

\* values of --port, as their characters: the default, another port, and a
\* text that goes on after its digits
PortOptions ==
  {<<"4", "0", "0", "2">>, <<"4", "0", "0", "3">>, <<"4", "0", "0", "2", "x">>}

Digits == <<"0", "1", "2", "3", "4", "5", "6", "7", "8", "9">>
IsDigit(c) == \E d \in 1..10 : Digits[d] = c
DigitValue(c) == (CHOOSE d \in 1..10 : Digits[d] = c) - 1

\* parseInt(text) of a text that starts with a digit: the number its leading
\* digits spell, whatever follows them
RECURSIVE ParseDigits(_, _)
ParseDigits(str, acc) ==
  IF str = <<>> \/ ~IsDigit(Head(str)) THEN acc
  ELSE ParseDigits(Tail(str), acc * 10 + DigitValue(Head(str)))

parseInt(str) == ParseDigits(str, 0)
States == {"s1", "s2"}
Codes == {"c1"}
ErrorCodes == {"access_denied"}
Descriptions == {"User denied"}

Requests ==
  [path : {"/callback"},
   code : {Null, ""} \cup Codes,
   state : {Null} \cup States,
   error : {Null, ""} \cup ErrorCodes,
   desc : {Null, ""} \cup Descriptions]
  \cup
  [path : {"/favicon.ico"}, code : {Null}, state : {Null}, error : {Null}, desc : {Null}]

\* the requests a login attempt is tried with: the redirects of a granted and
\* of a denied consent, a forged redirect without state, one without code,
\* and the browser's request for an icon
LoginRequests ==
  {r \in Requests :
     \/ r.path = "/favicon.ico"
     \/ r.code \in Codes /\ r.state \in States /\ r.error = Null /\ r.desc = Null
     \/ r.code \in Codes /\ r.state = Null /\ r.error = Null /\ r.desc = Null
     \/ r.code = Null /\ r.state \in States /\ r.error = Null /\ r.desc = Null
     \/ r.code = Null /\ r.state \in States /\ r.error \in ErrorCodes /\ r.desc \in Descriptions}

NoReq == [path |-> Null, code |-> Null, state |-> Null, error |-> Null, desc |-> Null]

Pending == [kind |-> "pending", val |-> Null]
Resolved(v) == [kind |-> "resolved", val |-> v]
Rejected(v) == [kind |-> "rejected", val |-> v]

InvalidState == "Invalid state parameter"
NoCode == "No authorization code received"
AuthTimeout == "Authorization timeout"
ServerErr == "server error"

-----------------------------------------------------------------------------
\* startCallbackServer

\* resolve()/reject() of a Promise: only the first call has an effect
Settle(p, kind, val) ==
  IF p.kind = "pending" THEN [kind |-> kind, val |-> val] ELSE p

SettledBy(p, by, who) ==
  IF p.kind = "pending" THEN who ELSE by

\* server.close(): stops listening; a no-op on a server that is not listening
ServerClose(s) ==
  IF s = "listening" THEN "closed" ELSE s

\* the handler without its CSRF check
CallbackHandler_NoStateCheck(req, expectedState) ==
  IF req.path = "/callback" THEN
    IF Truthy(req.error) THEN
      [status |-> 400, close |-> TRUE, settle |-> "rejected",
       val |-> IF Truthy(req.desc) THEN req.desc ELSE req.error]
    ELSE IF ~Truthy(req.code) THEN
      [status |-> 400, close |-> TRUE, settle |-> "rejected", val |-> NoCode]
    ELSE
      [status |-> 200, close |-> TRUE, settle |-> "resolved", val |-> req.code]
  ELSE
    [status |-> 404, close |-> FALSE, settle |-> "none", val |-> Null]

\* the handler with the CSRF check ahead of the error check
CallbackHandler_StateFirst(req, expectedState) ==
  IF req.path = "/callback" THEN
    IF req.state # expectedState THEN
      [status |-> 400, close |-> TRUE, settle |-> "rejected", val |-> InvalidState]
    ELSE IF Truthy(req.error) THEN
      [status |-> 400, close |-> TRUE, settle |-> "rejected",
       val |-> IF Truthy(req.desc) THEN req.desc ELSE req.error]
    ELSE IF ~Truthy(req.code) THEN
      [status |-> 400, close |-> TRUE, settle |-> "rejected", val |-> NoCode]
    ELSE
      [status |-> 200, close |-> TRUE, settle |-> "resolved", val |-> req.code]
  ELSE
    [status |-> 404, close |-> FALSE, settle |-> "none", val |-> Null]

\* the handler without its check for a missing code
CallbackHandler_NoCodeCheck(req, expectedState) ==
  IF req.path = "/callback" THEN
    IF Truthy(req.error) THEN
      [status |-> 400, close |-> TRUE, settle |-> "rejected",
       val |-> IF Truthy(req.desc) THEN req.desc ELSE req.error]
    ELSE IF req.state # expectedState THEN
      [status |-> 400, close |-> TRUE, settle |-> "rejected", val |-> InvalidState]
    ELSE
      [status |-> 200, close |-> TRUE, settle |-> "resolved", val |-> req.code]
  ELSE
    [status |-> 404, close |-> FALSE, settle |-> "none", val |-> Null]

\* the handler closing the server on every request, whatever its path
CallbackHandler_CloseOnNotFound(req, expectedState) ==
  IF req.path = "/callback" THEN
    IF Truthy(req.error) THEN
      [status |-> 400, close |-> TRUE, settle |-> "rejected",
       val |-> IF Truthy(req.desc) THEN req.desc ELSE req.error]
    ELSE IF req.state # expectedState THEN
      [status |-> 400, close |-> TRUE, settle |-> "rejected", val |-> InvalidState]
    ELSE IF ~Truthy(req.code) THEN
      [status |-> 400, close |-> TRUE, settle |-> "rejected", val |-> NoCode]
    ELSE
      [status |-> 200, close |-> TRUE, settle |-> "resolved", val |-> req.code]
  ELSE
    [status |-> 404, close |-> TRUE, settle |-> "none", val |-> Null]

\* the request handler's decision: response status, whether server.close() is
\* called, and the resolve/reject call it makes
CallbackHandler(req, expectedState) ==
  IF req.path = "/callback" THEN
    IF Truthy(req.error) THEN
      [status |-> 400, close |-> TRUE, settle |-> "rejected",
       val |-> IF Truthy(req.desc) THEN req.desc ELSE req.error]
    ELSE IF req.state # expectedState THEN
      [status |-> 400, close |-> TRUE, settle |-> "rejected", val |-> InvalidState]
    ELSE IF ~Truthy(req.code) THEN
      [status |-> 400, close |-> TRUE, settle |-> "rejected", val |-> NoCode]
    ELSE
      [status |-> 200, close |-> TRUE, settle |-> "resolved", val |-> req.code]
  ELSE
    [status |-> 404, close |-> FALSE, settle |-> "none", val |-> Null]

\* new Promise(...): createServer, on('error'), listen, setTimeout
StartServerEffect(port, expectedState, bindOk) ==
  /\ srv' = IF bindOk THEN "listening" ELSE "unbound"
  /\ srvPort' = port
  /\ expected' = expectedState
  /\ promise' = Pending
  /\ settledBy' = "none"
  /\ timer' = "armed"
  /\ closeCalls' = 0
  /\ conns' = 0
  /\ deadline' = now + CallbackTimeoutMs
  /\ lastStatus' = 0
  /\ lastReq' = NoReq

StartCallbackServer(port, expectedState, bindOk) ==
  /\ UNCHANGED uvars
  /\ srv = "idle"
  /\ pc = "idle"
  /\ now + CallbackTimeoutMs <= MaxTime
  /\ StartServerEffect(port, expectedState, bindOk)
  /\ UNCHANGED <<avars, cvars>>

\* a client connects and starts sending a request; the connection is accepted
\* while the server listens
Connect ==
  /\ UNCHANGED uvars
  /\ srv = "listening"
  /\ conns < MaxConns
  /\ conns' = conns + 1
  /\ UNCHANGED <<srv, srvPort, expected, promise, settledBy, timer, closeCalls, deadline, lastStatus, lastReq>>
  /\ UNCHANGED <<avars, cvars>>

\* a client gives up before its request is complete
Disconnect ==
  /\ UNCHANGED uvars
  /\ conns > 0
  /\ conns' = conns - 1
  /\ UNCHANGED <<srv, srvPort, expected, promise, settledBy, timer, closeCalls, deadline, lastStatus, lastReq>>
  /\ UNCHANGED <<avars, cvars>>

\* the request handler of createServer, for a request on an accepted connection
HandleRequest(req) ==
  LET d == CallbackHandler(req, expected) IN
  /\ UNCHANGED uvars
  /\ conns > 0
  /\ conns' = conns - 1
  /\ lastStatus' = d.status
  /\ lastReq' = req
  /\ srv' = IF d.close THEN ServerClose(srv) ELSE srv
  /\ closeCalls' = IF d.close THEN closeCalls + 1 ELSE closeCalls
  /\ promise' = IF d.settle = "none" THEN promise ELSE Settle(promise, d.settle, d.val)
  /\ settledBy' = IF d.settle = "none" THEN settledBy ELSE SettledBy(promise, settledBy, "request")
  /\ UNCHANGED <<srvPort, expected, timer, deadline>>
  /\ UNCHANGED <<avars, cvars>>

\* server.on('error'): a failed listen, or a failed accept while listening
ServerError ==
  /\ UNCHANGED uvars
  /\ srv \in {"unbound", "listening"}
  /\ promise' = Settle(promise, "rejected", ServerErr)
  /\ settledBy' = SettledBy(promise, settledBy, "error")
  /\ UNCHANGED <<srv, srvPort, expected, timer, closeCalls, conns, deadline, lastStatus, lastReq>>
  /\ UNCHANGED <<avars, cvars>>

\* a timeout callback that closes the server and forgets to reject
TimerFire_NoReject ==
  /\ UNCHANGED uvars
  /\ timer = "armed"
  /\ now >= deadline
  /\ timer' = "fired"
  /\ srv' = ServerClose(srv)
  /\ closeCalls' = closeCalls + 1
  /\ UNCHANGED <<promise, settledBy>>
  /\ UNCHANGED <<srvPort, expected, conns, deadline, lastStatus, lastReq>>
  /\ UNCHANGED <<avars, cvars>>

\* the setTimeout callback
TimerFire ==
  /\ UNCHANGED uvars
  /\ timer = "armed"
  /\ now >= deadline
  /\ timer' = "fired"
  /\ srv' = ServerClose(srv)
  /\ closeCalls' = closeCalls + 1
  /\ promise' = Settle(promise, "rejected", AuthTimeout)
  /\ settledBy' = SettledBy(promise, settledBy, "timer")
  /\ UNCHANGED <<srvPort, expected, conns, deadline, lastStatus, lastReq>>
  /\ UNCHANGED <<avars, cvars>>

\* time passes; a due timer runs before the clock moves on
Tick ==
  /\ UNCHANGED uvars
  /\ now < MaxTime
  /\ timer = "armed" => now + TickMs <= deadline
  /\ now' = now + TickMs
  /\ UNCHANGED <<fs, env, pc, manual, authState, urlState, redirectUri, code, fsAtStart, exitCode, cmd, tokenResp>>
  /\ UNCHANGED <<lvars, cvars>>

-----------------------------------------------------------------------------
\* The credential store

\* OAuthTokens; an optional field that is not set is Null. created_at holds the
\* instant, in milliseconds, that new Date(created_at).getTime() yields for the
\* ISO string toISOString() wrote (millisecond precision both ways).
Tokens(at, ei, rt, ca) ==
  [access_token |-> at, expires_in |-> ei, refresh_token |-> rt, created_at |-> ca]

\* a file of the store: its text and its permission bits (in octal)
NoFile == [exists |-> FALSE, content |-> <<>>, mode |-> Null]
FileWithMode(c, m) == [exists |-> TRUE, content |-> c, mode |-> m]
File(c) == FileWithMode(c, "600")

\* JSON.stringify(tokens, null, 2): the defined fields, in order
JSONStringify(t) ==
  <<<<"access_token", t.access_token>>, <<"expires_in", t.expires_in>>>>
  \o (IF t.refresh_token = Null THEN <<>> ELSE <<<<"refresh_token", t.refresh_token>>>>)
  \o <<<<"created_at", t.created_at>>>>

\* the content of a file that JSON.parse rejects: a member without a value
Corrupt == <<<<"access_token">>>>

\* JSON.parse(content) throws a SyntaxError on the empty text and unless every
\* member is a pair
WellFormed(c) == Len(c) > 0 /\ \A i \in 1..Len(c) : Len(c[i]) = 2

\* JSON.parse(content) of a well-formed file
Field(c, k, dflt) ==
  IF \E i \in 1..Len(c) : c[i][1] = k
  THEN LET i == CHOOSE j \in 1..Len(c) : c[j][1] = k /\ \A l \in (j+1)..Len(c) : c[l][1] # k
       IN c[i][2]
  ELSE dflt

JSONParse(c) ==
  Tokens(Field(c, "access_token", Null), Field(c, "expires_in", 0),
         Field(c, "refresh_token", Null), Field(c, "created_at", 0))

\* the directory lookup with the legacy directory looked at first
getCredentialsDir_MoltFirst(f) ==
  IF f.moltDir THEN "molt"
  ELSE IF f.clawDir THEN "claw"
  ELSE "claw"

getCredentialsDir(f) ==
  IF f.clawDir THEN "claw"
  ELSE IF f.moltDir THEN "molt"
  ELSE "claw"

getCredentialsPath(f) ==
  IF f.clawFile.exists THEN "claw"
  ELSE IF f.moltFile.exists THEN "molt"
  ELSE "claw"

\* fs.mkdirSync(credentialsDir, {recursive: true, mode: 0o700}) of the canonical
\* directory, the only one saveTokens can find missing
MkdirSync(f) ==
  [f EXCEPT !.clawDir = TRUE, !.clawDirMode = "700"]

\* open(path, O_WRONLY | O_CREAT | O_TRUNC, 0o600), the first step of
\* fs.writeFileSync(path, data, {mode: 0o600}): the file is emptied; the mode
\* is given to a file that is created and an existing file keeps its own
OpenTruncate(file) ==
  FileWithMode(<<>>, IF file.exists THEN file.mode ELSE "600")

\* fs.writeFileSync(path, data, {mode: 0o600}) gone through
WriteFileSync(file, data) ==
  [OpenTruncate(file) EXCEPT !.content = data]

\* a save that merges the new record into the stored one, so that a field the
\* new record lacks is kept
saveTokens_Merge(f, t) ==
  LET old == IF f.clawFile.exists THEN f.clawFile.content
             ELSE IF f.moltFile.exists THEN f.moltFile.content ELSE <<>>
      merged == IF WellFormed(old) /\ t.refresh_token = Null
                THEN [t EXCEPT !.refresh_token = JSONParse(old).refresh_token]
                ELSE t
  IN IF getCredentialsDir(f) = "claw"
     THEN LET d == IF f.clawDir THEN f ELSE MkdirSync(f)
          IN [d EXCEPT !.clawFile = WriteFileSync(f.clawFile, JSONStringify(merged))]
     ELSE [f EXCEPT !.moltFile = WriteFileSync(f.moltFile, JSONStringify(merged))]

\* saveTokens: the store afterwards
saveTokens(f, t) ==
  IF getCredentialsDir(f) = "claw"
  THEN LET d == IF f.clawDir THEN f ELSE MkdirSync(f)
       IN [d EXCEPT !.clawFile = WriteFileSync(f.clawFile, JSONStringify(t))]
  ELSE [f EXCEPT !.moltFile = WriteFileSync(f.moltFile, JSONStringify(t))]

NoTokens == Tokens(Null, 0, Null, 0)

\* the content of one file read and parsed: the record, or the SyntaxError thrown
ReadTokens(content) ==
  IF WellFormed(content)
  THEN [found |-> TRUE, error |-> FALSE, tokens |-> JSONParse(content)]
  ELSE [found |-> FALSE, error |-> TRUE, tokens |-> NoTokens]

\* a load that takes a file it cannot parse for no file
loadTokens_AbsentOnCorrupt(f) ==
  LET absent == [found |-> FALSE, error |-> FALSE, tokens |-> NoTokens]
      read(file) == IF WellFormed(file.content) THEN ReadTokens(file.content) ELSE absent
  IN IF f.clawFile.exists THEN read(f.clawFile)
     ELSE IF f.moltFile.exists THEN read(f.moltFile)
     ELSE absent

\* loadTokens: [found, error, tokens]; null is found = FALSE without error
loadTokens(f) ==
  IF f.clawFile.exists THEN ReadTokens(f.clawFile.content)
  ELSE IF f.moltFile.exists THEN ReadTokens(f.moltFile.content)
  ELSE [found |-> FALSE, error |-> FALSE, tokens |-> NoTokens]

\* deleteTokens: [fs, result]
deleteTokens(f) ==
  IF getCredentialsPath(f) = "claw"
  THEN IF f.clawFile.exists
       THEN [fs |-> [f EXCEPT !.clawFile = NoFile], result |-> TRUE]
       ELSE [fs |-> f, result |-> FALSE]
  ELSE IF f.moltFile.exists
       THEN [fs |-> [f EXCEPT !.moltFile = NoFile], result |-> TRUE]
       ELSE [fs |-> f, result |-> FALSE]

\* the expiry test with > for >=
isTokenExpired_Strict(t, time) ==
  LET createdAt == t.created_at
      expiresAt == createdAt + t.expires_in * 1000
  IN time > expiresAt - 5 * 60 * 1000

\* the expiry test without its 5-minute margin
isTokenExpired_NoMargin(t, time) ==
  LET createdAt == t.created_at
      expiresAt == createdAt + t.expires_in * 1000
  IN time >= expiresAt

isTokenExpired(t, time) ==
  LET createdAt == t.created_at
      expiresAt == createdAt + t.expires_in * 1000
  IN time >= expiresAt - 5 * 60 * 1000

\* the 7-day test with < for <=
isTokenExpiringSoon_Strict(t, time) ==
  LET createdAt == t.created_at
      sevenDaysFromNow == time + (7 * 24 * 60 * 60 * 1000)
  IN t.expires_in <= (sevenDaysFromNow - createdAt - 1) \div 1000

\* expiresAt <= sevenDaysFromNow, where expiresAt = createdAt + expires_in * 1000.
\* A 60-day lifetime is 5 184 000 000 ms, within a JavaScript number but beyond
\* 32-bit integer arithmetic, so the comparison is made on
\* expires_in * 1000 <= sevenDaysFromNow - createdAt, divided through by 1000.
isTokenExpiringSoon(t, time) ==
  LET createdAt == t.created_at
      sevenDaysFromNow == time + (7 * 24 * 60 * 60 * 1000)
  IN t.expires_in <= (sevenDaysFromNow - createdAt) \div 1000

-----------------------------------------------------------------------------
\* The auth commands of the CLI (one process at a time)

\* what the token endpoint can answer
TokenOutcomes == {"ok", "http_error", "network_error", "bad_json"}
TokenData ==
  {[access_token |-> "a2", expires_in |-> e, refresh_token |-> r] :
     e \in {900}, r \in {Null, "r2"}}

\* exchangeCodeForToken / refreshAccessToken on a 2xx answer: the response
\* stamped with created_at
Stamp(data, time) ==
  Tokens(data.access_token, data.expires_in, data.refresh_token, time)

\* the process is gone: its server, timer and sockets with it
ResetListener ==
  /\ srv' = "idle"
  /\ srvPort' = 0
  /\ expected' = Null
  /\ promise' = Pending
  /\ settledBy' = "none"
  /\ timer' = "none"
  /\ closeCalls' = 0
  /\ conns' = 0
  /\ deadline' = 0
  /\ lastStatus' = 0
  /\ lastReq' = NoReq

\* process.exit(c), or the end of the process when nothing keeps it alive
Exit(c) ==
  /\ pc' = "idle"
  /\ exitCode' = c
  /\ manual' = FALSE
  /\ authState' = Null
  /\ urlState' = Null
  /\ redirectUri' = <<>>
  /\ code' = Null
  /\ ResetListener

\* a login that does not look at the stored credential before it starts
LoginStart_NoStoredCheck(m, port, bindOk, s) ==
  LET l == loadTokens(fs) IN
  /\ UNCHANGED uvars
  /\ pc = "idle"
  /\ cmd' = "login"
  /\ fsAtStart' = fs
  /\ tokenResp' = "none"
  /\ UNCHANGED <<fs, env, now, cvars>>
  /\ IF l.error
     THEN Exit(1)
     ELSE IF ~env
     THEN Exit(1)
     ELSE /\ exitCode' = -1
          /\ manual' = m
          /\ authState' = s
          /\ urlState' = s
          /\ redirectUri' = <<"http://localhost:", port, "/callback">>
          /\ code' = Null
          /\ IF m
             THEN /\ pc' = "login_prompt"
                  /\ UNCHANGED lvars
             ELSE /\ now + CallbackTimeoutMs <= MaxTime
                  /\ pc' = "login_await"
                  /\ StartServerEffect(parseInt(port), s, bindOk)

\* auth login, up to the first await
LoginStart(m, port, bindOk, s) ==
  LET l == loadTokens(fs) IN
  /\ UNCHANGED uvars
  /\ pc = "idle"
  /\ cmd' = "login"
  /\ fsAtStart' = fs
  /\ tokenResp' = "none"
  /\ UNCHANGED <<fs, env, now, cvars>>
  /\ IF l.error
     THEN Exit(1)
     ELSE IF l.found /\ ~isTokenExpired(l.tokens, now)
     THEN Exit(0)
     ELSE IF ~env
     THEN Exit(1)
     ELSE /\ exitCode' = -1
          /\ manual' = m
          /\ authState' = s
          /\ urlState' = s
          /\ redirectUri' = <<"http://localhost:", port, "/callback">>
          /\ code' = Null
          /\ IF m
             THEN /\ pc' = "login_prompt"
                  /\ UNCHANGED lvars
             ELSE /\ now + CallbackTimeoutMs <= MaxTime
                  /\ pc' = "login_await"
                  /\ StartServerEffect(parseInt(port), s, bindOk)

\* manual mode: the answer to rl.question, trimmed
LoginPaste(answer) ==
  /\ UNCHANGED uvars
  /\ pc = "login_prompt"
  /\ code' = answer
  /\ pc' = "login_exchange"
  /\ UNCHANGED <<fs, env, now, manual, authState, urlState, redirectUri, fsAtStart, exitCode, cmd, tokenResp>>
  /\ UNCHANGED <<lvars, cvars>>

\* manual mode: the user interrupts the prompt
LoginAbort ==
  /\ UNCHANGED uvars
  /\ pc = "login_prompt"
  /\ Exit(130)
  /\ UNCHANGED <<fs, env, now, fsAtStart, cmd, tokenResp, cvars>>

\* automatic mode: the await of startCallbackServer continues
LoginCallback ==
  /\ UNCHANGED uvars
  /\ pc = "login_await"
  /\ promise.kind # "pending"
  /\ UNCHANGED <<fs, env, now, fsAtStart, cmd, tokenResp, cvars>>
  /\ IF promise.kind = "resolved"
     THEN /\ code' = promise.val
          /\ pc' = "login_exchange"
          /\ UNCHANGED <<manual, authState, urlState, redirectUri, exitCode, lvars>>
     ELSE Exit(1)

\* a login that takes any HTTP answer of the token endpoint for a token
LoginExchange_NoStatusCheck(outcome, data) ==
  /\ UNCHANGED uvars
  /\ pc = "login_exchange"
  /\ tokenResp' = outcome
  /\ UNCHANGED <<env, now, fsAtStart, cmd, cvars>>
  /\ IF outcome \in {"ok", "http_error"}
     THEN /\ fs' = saveTokens(fs, Stamp(data, now))
          /\ IF manual
             THEN Exit(0)
             ELSE /\ pc' = "login_linger"
                  /\ UNCHANGED <<manual, authState, urlState, redirectUri, code, exitCode, lvars>>
     ELSE /\ fs' = fs
          /\ Exit(1)

\* exchangeCodeForToken answers; saveTokens on success
LoginExchange(outcome, data) ==
  /\ UNCHANGED uvars
  /\ pc = "login_exchange"
  /\ tokenResp' = outcome
  /\ UNCHANGED <<env, now, fsAtStart, cmd, cvars>>
  /\ IF outcome = "ok"
     THEN /\ fs' = saveTokens(fs, Stamp(data, now))
          /\ IF manual
             THEN Exit(0)
             ELSE /\ pc' = "login_linger"
                  /\ UNCHANGED <<manual, authState, urlState, redirectUri, code, exitCode, lvars>>
     ELSE /\ fs' = fs
          /\ Exit(1)

\* after a successful automatic login the process lives on until nothing is
\* left on the event loop
ProcessEnd ==
  /\ UNCHANGED uvars
  /\ pc = "login_linger"
  /\ timer # "armed"
  /\ srv # "listening"
  /\ conns = 0
  /\ Exit(0)
  /\ UNCHANGED <<fs, env, now, fsAtStart, cmd, tokenResp, cvars>>

\* auth refresh, up to the await
RefreshStart ==
  LET l == loadTokens(fs) IN
  /\ UNCHANGED uvars
  /\ pc = "idle"
  /\ cmd' = "refresh"
  /\ fsAtStart' = fs
  /\ tokenResp' = "none"
  /\ UNCHANGED <<fs, env, now, cvars>>
  /\ IF l.error \/ ~l.found \/ ~Truthy(l.tokens.refresh_token) \/ ~env
     THEN Exit(1)
     ELSE /\ pc' = "refresh_call"
          /\ exitCode' = -1
          /\ UNCHANGED <<manual, authState, urlState, redirectUri, code, lvars>>

\* a refresh that writes the store before it looks at the answer
RefreshRespond_SaveFirst(outcome, data) ==
  /\ UNCHANGED uvars
  /\ pc = "refresh_call"
  /\ tokenResp' = outcome
  /\ fs' = IF outcome # "network_error" THEN saveTokens(fs, Stamp(data, now)) ELSE fs
  /\ Exit(IF outcome = "ok" THEN 0 ELSE 1)
  /\ UNCHANGED <<env, now, fsAtStart, cmd, cvars>>

\* refreshAccessToken answers; saveTokens on success
RefreshRespond(outcome, data) ==
  /\ UNCHANGED uvars
  /\ pc = "refresh_call"
  /\ tokenResp' = outcome
  /\ fs' = IF outcome = "ok" THEN saveTokens(fs, Stamp(data, now)) ELSE fs
  /\ Exit(IF outcome = "ok" THEN 0 ELSE 1)
  /\ UNCHANGED <<env, now, fsAtStart, cmd, cvars>>

\* auth logout
Logout ==
  /\ UNCHANGED uvars
  /\ pc = "idle"
  /\ cmd' = "logout"
  /\ fsAtStart' = fs
  /\ tokenResp' = "none"
  /\ fs' = deleteTokens(fs).fs
  /\ Exit(0)
  /\ UNCHANGED <<env, now, cvars>>

-----------------------------------------------------------------------------
\* LinkedInClient: the image-post operations

\* Image sources, as the characters of options.imageUrl
ImageSources ==
  {<<"/", "i">>, <<".", "/", "i">>, <<".", ".", "/", "i">>, <<"~", "/", "i">>,
   <<"h", "t", "t", "p", "s", ":", "/", "/", "i">>, <<"i">>}

StartsWith(str, prefix) ==
  /\ Len(str) >= Len(prefix)
  /\ SubSeq(str, 1, Len(prefix)) = prefix

isLocalPath(str) ==
  \/ StartsWith(str, <<"/">>)
  \/ StartsWith(str, <<".", "/">>)
  \/ StartsWith(str, <<".", ".", "/">>)
  \/ StartsWith(str, <<"~">>)

\* what an upstream request can come back with
Outcomes == {"ok", "http_error", "network_error"}
Subs == {"42"}
OrgIds == {"777"}
UploadUrls == {"https://upload/1", "https://upload/2"}
Assets == {"urn:li:digitalmediaAsset:1", "urn:li:digitalmediaAsset:2"}

PersonUrn(sub) == <<"urn:li:person:", sub>>
OrgUrn(id) == <<"urn:li:organization:", id>>

Req(kind, url, author, media) ==
  [kind |-> kind, url |-> url, author |-> author, media |-> media]

\* the post creation of step 4: the payload has media category IMAGE and one
\* media entry, the asset
ImagePostRequest(author, media) ==
  [kind |-> "publish", url |-> "/ugcPosts", author |-> author, media |-> media,
   shareMediaCategory |-> "IMAGE"]

NoOp == [name |-> "none", imageUrl |-> <<>>, fileExists |-> FALSE]

\* the constructor without its expiry test
LinkedInClient_NoExpiryCheck(given, tokens, f, time) ==
  LET loadedTokens == loadTokens(f)
  IN IF ~given /\ loadedTokens.error THEN "parse_error"
     ELSE IF ~given /\ ~loadedTokens.found THEN "no_credentials"
     ELSE "ok"

\* new LinkedInClient(tokens), or new LinkedInClient() when not given: "ok", or
\* what it throws
LinkedInClient(given, tokens, f, time) ==
  LET loadedTokens == loadTokens(f)
      thisTokens == IF given THEN tokens ELSE loadedTokens.tokens
  IN IF ~given /\ loadedTokens.error THEN "parse_error"
     ELSE IF ~given /\ ~loadedTokens.found THEN "no_credentials"
     ELSE IF isTokenExpired(thisTokens, time) THEN "expired"
     ELSE "ok"

\* a client is constructed while no operation is running
Construct(given, tokens) ==
  /\ opPc \in {"none", "done"}
  /\ client' = LinkedInClient(given, tokens, fs, now)
  /\ prevCall' = lastCall
  /\ lastCall' = [fn |-> "LinkedInClient", arg |-> [given |-> given, tokens |-> tokens],
                  result |-> LinkedInClient(given, tokens, fs, now), before |-> fs]
  /\ UNCHANGED <<op, opPc, reqLog, respLog, inFlight, authorUrn, uploadUrl, asset, opResult>>
  /\ UNCHANGED <<lvars, avars>>

\* the operation throws
Fail ==
  /\ opPc' = "done"
  /\ opResult' = "error"

\* a createImagePost that registers at once, without the identity request
CreateImagePost_NoLookup(src, ex) ==
  /\ UNCHANGED <<uvars, client>>
  /\ client = "ok"
  /\ opPc \in {"none", "done"}
  /\ op' = [name |-> "createImagePost", imageUrl |-> src, fileExists |-> ex]
  /\ opPc' = "register"
  /\ authorUrn' = PersonUrn("42")
  /\ reqLog' = <<Req("register", "/assets?action=registerUpload", PersonUrn("42"), Null)>>
  /\ respLog' = <<>>
  /\ inFlight' = 1
  /\ uploadUrl' = Null
  /\ asset' = Null
  /\ opResult' = "none"
  /\ UNCHANGED <<lvars, avars>>

\* createImagePost is called: getMemberUrn issues the identity request
CreateImagePost(src, ex) ==
  /\ UNCHANGED <<uvars, client>>
  /\ client = "ok"
  /\ opPc \in {"none", "done"}
  /\ op' = [name |-> "createImagePost", imageUrl |-> src, fileExists |-> ex]
  /\ opPc' = "profile"
  /\ reqLog' = <<Req("userinfo", "https://api.linkedin.com/v2/userinfo", Null, Null)>>
  /\ respLog' = <<>>
  /\ inFlight' = 1
  /\ authorUrn' = Null
  /\ uploadUrl' = Null
  /\ asset' = Null
  /\ opResult' = "none"
  /\ UNCHANGED <<lvars, avars>>

\* createOrganizationImagePost is called: the registration is its first request
CreateOrganizationImagePost(orgId, src, ex) ==
  /\ UNCHANGED <<uvars, client>>
  /\ client = "ok"
  /\ opPc \in {"none", "done"}
  /\ op' = [name |-> "createOrganizationImagePost", imageUrl |-> src, fileExists |-> ex]
  /\ opPc' = "register"
  /\ authorUrn' = OrgUrn(orgId)
  /\ reqLog' = <<Req("register", "/assets?action=registerUpload", OrgUrn(orgId), Null)>>
  /\ respLog' = <<>>
  /\ inFlight' = 1
  /\ uploadUrl' = Null
  /\ asset' = Null
  /\ opResult' = "none"
  /\ UNCHANGED <<lvars, avars>>

\* the identity request comes back
ProfileResponse(outcome, sub) ==
  /\ UNCHANGED <<uvars, client>>
  /\ opPc = "profile"
  /\ respLog' = Append(respLog, outcome)
  /\ UNCHANGED <<op, uploadUrl, asset, lvars, avars>>
  /\ IF outcome = "ok"
     THEN /\ authorUrn' = PersonUrn(sub)
          /\ opPc' = "register"
          /\ opResult' = opResult
          /\ reqLog' = Append(reqLog, Req("register", "/assets?action=registerUpload", PersonUrn(sub), Null))
          /\ inFlight' = inFlight
     ELSE /\ Fail
          /\ inFlight' = inFlight - 1
          /\ UNCHANGED <<authorUrn, reqLog>>

\* a registration answer after which the bytes are sent whatever it was
RegisterResponse_PutOnFailure(outcome, url, a) ==
  /\ UNCHANGED <<uvars, client>>
  /\ opPc = "register"
  /\ respLog' = Append(respLog, outcome)
  /\ uploadUrl' = url
  /\ asset' = a
  /\ opPc' = "put"
  /\ reqLog' = Append(reqLog, Req("put", url, Null, Null))
  /\ UNCHANGED <<op, authorUrn, opResult, inFlight, lvars, avars>>

\* the registration comes back; getImageBuffer reads a local file at once and
\* fetches anything else
RegisterResponse(outcome, url, a) ==
  /\ UNCHANGED <<uvars, client>>
  /\ opPc = "register"
  /\ respLog' = Append(respLog, outcome)
  /\ UNCHANGED <<op, authorUrn, lvars, avars>>
  /\ IF outcome = "ok"
     THEN /\ uploadUrl' = url
          /\ asset' = a
          /\ IF isLocalPath(op.imageUrl)
             THEN IF op.fileExists
                  THEN /\ opPc' = "put"
                       /\ opResult' = opResult
                       /\ reqLog' = Append(reqLog, Req("put", url, Null, Null))
                       /\ inFlight' = inFlight
                  ELSE /\ Fail
                       /\ inFlight' = inFlight - 1
                       /\ reqLog' = reqLog
             ELSE /\ opPc' = "fetch"
                  /\ opResult' = opResult
                  /\ reqLog' = Append(reqLog, Req("fetch", op.imageUrl, Null, Null))
                  /\ inFlight' = inFlight
     ELSE /\ Fail
          /\ inFlight' = inFlight - 1
          /\ UNCHANGED <<uploadUrl, asset, reqLog>>

\* a fetch answer after which the bytes go to an upload URL kept from before
FetchResponse_StaleUrl(outcome) ==
  /\ UNCHANGED <<uvars, client>>
  /\ opPc = "fetch"
  /\ respLog' = Append(respLog, outcome)
  /\ UNCHANGED <<op, authorUrn, uploadUrl, asset, lvars, avars>>
  /\ IF outcome = "ok"
     THEN /\ opPc' = "put"
          /\ opResult' = opResult
          /\ reqLog' = Append(reqLog, Req("put", "https://upload/1", Null, Null))
          /\ inFlight' = inFlight
     ELSE /\ Fail
          /\ inFlight' = inFlight - 1
          /\ reqLog' = reqLog

\* a fetch whose answer is used without the test of response.ok
FetchResponse_IgnoreStatus(outcome) ==
  /\ UNCHANGED <<uvars, client>>
  /\ opPc = "fetch"
  /\ respLog' = Append(respLog, outcome)
  /\ UNCHANGED <<op, authorUrn, uploadUrl, asset, lvars, avars>>
  /\ IF outcome # "network_error"
     THEN /\ opPc' = "put"
          /\ opResult' = opResult
          /\ reqLog' = Append(reqLog, Req("put", uploadUrl, Null, Null))
          /\ inFlight' = inFlight
     ELSE /\ Fail
          /\ inFlight' = inFlight - 1
          /\ reqLog' = reqLog

\* the fetch of a remote image comes back
FetchResponse(outcome) ==
  /\ UNCHANGED <<uvars, client>>
  /\ opPc = "fetch"
  /\ respLog' = Append(respLog, outcome)
  /\ UNCHANGED <<op, authorUrn, uploadUrl, asset, lvars, avars>>
  /\ IF outcome = "ok"
     THEN /\ opPc' = "put"
          /\ opResult' = opResult
          /\ reqLog' = Append(reqLog, Req("put", uploadUrl, Null, Null))
          /\ inFlight' = inFlight
     ELSE /\ Fail
          /\ inFlight' = inFlight - 1
          /\ reqLog' = reqLog

\* the PUT's answer taken for a success whenever fetch returned one
UploadOk_NoCheck(outcome) ==
  outcome # "network_error"

\* does the operation go on to publish after this answer to the PUT?
UploadOk(outcome) ==
  outcome = "ok"

\* a PUT answer after which a failed PUT is sent again
PutResponse_Retry(outcome) ==
  /\ UNCHANGED <<uvars, client>>
  /\ opPc = "put"
  /\ respLog' = Append(respLog, outcome)
  /\ UNCHANGED <<op, authorUrn, uploadUrl, asset, opResult, inFlight, lvars, avars>>
  /\ IF UploadOk(outcome)
     THEN /\ opPc' = "publish"
          /\ reqLog' = Append(reqLog, ImagePostRequest(authorUrn, asset))
     ELSE /\ Len(reqLog) < 6
          /\ opPc' = "put"
          /\ reqLog' = Append(reqLog, Req("put", uploadUrl, Null, Null))

\* the PUT comes back; on success the post is submitted (step 4)
PutResponse(outcome) ==
  /\ UNCHANGED <<uvars, client>>
  /\ opPc = "put"
  /\ respLog' = Append(respLog, outcome)
  /\ UNCHANGED <<op, authorUrn, uploadUrl, asset, lvars, avars>>
  /\ IF UploadOk(outcome)
     THEN /\ opPc' = "publish"
          /\ opResult' = opResult
          /\ reqLog' = Append(reqLog, ImagePostRequest(authorUrn, asset))
          /\ inFlight' = inFlight
     ELSE /\ Fail
          /\ inFlight' = inFlight - 1
          /\ reqLog' = reqLog

\* the post creation comes back
PublishResponse(outcome) ==
  /\ UNCHANGED <<uvars, client>>
  /\ opPc = "publish"
  /\ respLog' = Append(respLog, outcome)
  /\ opPc' = "done"
  /\ opResult' = IF outcome = "ok" THEN "ok" ELSE "error"
  /\ inFlight' = inFlight - 1
  /\ UNCHANGED <<op, reqLog, authorUrn, uploadUrl, asset, lvars, avars>>

-----------------------------------------------------------------------------
\* LinkedInClient.request and the operations built on it alone

\* an undefined property, interpolated into a template string
TemplateValue(v) == IF v = Null THEN "undefined" ELSE v

\* response bodies: no text, the JSON value null, text that is not JSON, error
\* objects with a message, without one and with an empty one, a profile, a
\* created post
BodyTexts ==
  {"", "null", "Bad Gateway", "{\"message\":\"Unauthorized\"}", "{\"status\":401}",
   "{\"message\":\"\"}", "{\"sub\":\"42\",\"name\":\"Ada\"}", "{\"id\":\"urn:li:share:9\"}"}

\* a JavaScript value as the operations look at it: its kind and the
\* properties they read (Null: undefined)
Value(kind, message, sub, id) == [kind |-> kind, message |-> message, sub |-> sub, id |-> id]
UndefinedValue == Value("undefined", Null, Null, Null)
EmptyObject == Value("object", Null, Null, Null)

\* JSON.parse(text): [throws, value]
JSONParseBody(text) ==
  CASE text = "null" -> [throws |-> FALSE, value |-> Value("null", Null, Null, Null)]
    [] text = "{\"message\":\"Unauthorized\"}" ->
         [throws |-> FALSE, value |-> Value("object", "Unauthorized", Null, Null)]
    [] text = "{\"status\":401}" -> [throws |-> FALSE, value |-> EmptyObject]
    [] text = "{\"message\":\"\"}" -> [throws |-> FALSE, value |-> Value("object", "", Null, Null)]
    [] text = "{\"sub\":\"42\",\"name\":\"Ada\"}" ->
         [throws |-> FALSE, value |-> Value("object", Null, "42", Null)]
    [] text = "{\"id\":\"urn:li:share:9\"}" ->
         [throws |-> FALSE, value |-> Value("object", Null, Null, "urn:li:share:9")]
    [] OTHER -> [throws |-> TRUE, value |-> UndefinedValue]

\* what fetch settles with: a rejection, or a Response with a status and a body
Statuses == {200, 204, 401, 500}
FetchRejected == [rejected |-> TRUE, status |-> 0, text |-> ""]
Responses ==
  {FetchRejected} \cup {[rejected |-> FALSE, status |-> st, text |-> t] : st \in Statuses, t \in BodyTexts}

\* Response.ok
ResponseOk(response) == response.status >= 200 /\ response.status <= 299

\* how an awaited call ends: with a value, or with an error thrown
Returned(v) == [threw |-> FALSE, type |-> "none", status |-> 0, message |-> "", value |-> v]
Thrown(type, status, message) ==
  [threw |-> TRUE, type |-> type, status |-> status, message |-> message, value |-> UndefinedValue]

\* request without its test for an empty body
request_ParseEmpty(response) ==
  IF response.rejected THEN Thrown("TypeError", 0, "fetch failed")
  ELSE IF ~ResponseOk(response)
  THEN Thrown("Error", response.status, response.text)
  ELSE IF JSONParseBody(response.text).throws THEN Thrown("SyntaxError", 0, "Unexpected token")
       ELSE Returned(JSONParseBody(response.text).value)

\* request, from the moment fetch settles
request(response) ==
  IF response.rejected THEN Thrown("TypeError", 0, "fetch failed")
  ELSE IF ~ResponseOk(response)
  THEN LET errorText == response.text
           parsed == JSONParseBody(errorText)
       IN IF parsed.throws
          THEN Thrown("Error", response.status, errorText)
          ELSE IF parsed.value.kind = "null"
          THEN Thrown("TypeError", 0, "Cannot read properties of null (reading 'message')")
          ELSE Thrown("Error", response.status,
                      IF Truthy(parsed.value.message) THEN parsed.value.message ELSE errorText)
  ELSE LET text == response.text
       IN IF text = "" THEN Returned(EmptyObject)
          ELSE IF JSONParseBody(text).throws THEN Thrown("SyntaxError", 0, "Unexpected token")
          ELSE Returned(JSONParseBody(text).value)

\* CreatePostOptions (Null: not set)
Options(text, visibility, articleUrl, articleTitle, articleDescription) ==
  [text |-> text, visibility |-> visibility, articleUrl |-> articleUrl,
   articleTitle |-> articleTitle, articleDescription |-> articleDescription]

PostOptions ==
  {Options("hi", v, u, t, d) :
     v \in {Null, "CONNECTIONS"}, u \in {Null, "", "https://a"}, t \in {Null, "T"}, d \in {Null, "D"}}
PostIds == {"urn:li:share:123"}

\* JSON.stringify of an object: the properties that are defined
Stringify(obj) == [k \in {j \in DOMAIN obj : obj[j] # Null} |-> obj[k]]

\* the first media entry of createPost's payload with title and description
\* always written
ArticleMedia_AlwaysTitled(options) ==
  [status |-> "READY", originalUrl |-> options.articleUrl,
   title |-> TemplateValue(options.articleTitle),
   description |-> TemplateValue(options.articleDescription)]

\* the media entry of createPost's payload, serialized
ArticleMedia(options) ==
  Stringify([status |-> "READY",
             originalUrl |-> options.articleUrl,
             title |-> IF Truthy(options.articleTitle) THEN options.articleTitle ELSE Null,
             description |-> IF Truthy(options.articleDescription)
                             THEN options.articleDescription ELSE Null])

\* the payload of createPost, serialized; media = <<>>: no media property
createPostPayload(authorUrn_, options) ==
  [author |-> authorUrn_,
   lifecycleState |-> "PUBLISHED",
   visibility |-> IF Truthy(options.visibility) THEN options.visibility ELSE "PUBLIC",
   text |-> options.text,
   shareMediaCategory |-> IF Truthy(options.articleUrl) THEN "ARTICLE" ELSE "NONE",
   media |-> IF Truthy(options.articleUrl) THEN <<ArticleMedia(options)>> ELSE <<>>]

\* the payload of createOrganizationPost, serialized
createOrganizationPostPayload(orgUrn, options) ==
  [author |-> orgUrn,
   lifecycleState |-> "PUBLISHED",
   visibility |-> IF Truthy(options.visibility) THEN options.visibility ELSE "PUBLIC",
   text |-> options.text,
   shareMediaCategory |-> "NONE",
   media |-> <<>>]

\* a call of request: the method, the endpoint and the body passed to fetch
ApiRequest(kind, method, url, body) ==
  [kind |-> kind, method |-> method, url |-> url, body |-> body]
NoBody == "<no body>"

IdentityRequest == ApiRequest("userinfo", "GET", "https://api.linkedin.com/v2/userinfo", NoBody)
PostRequest(payload) == ApiRequest("publish", "POST", "/ugcPosts", payload)

\* the operation of the text-post interface that is running
TextOp(name, orgId, postId, options) ==
  [name |-> name, orgId |-> orgId, postId |-> postId, options |-> options]
NoOptions == Options(Null, Null, Null, Null, Null)

\* the operation has not settled
NoResult == [threw |-> FALSE, type |-> "pending", status |-> 0, message |-> "", value |-> UndefinedValue]

\* an operation starts with its first request
StartOp(o, firstRequest, position) ==
  /\ client = "ok"
  /\ opPc \in {"none", "done"}
  /\ op' = o
  /\ opPc' = position
  /\ reqLog' = <<firstRequest>>
  /\ respLog' = <<>>
  /\ inFlight' = 1
  /\ opResult' = NoResult
  /\ UNCHANGED <<uploadUrl, asset, client, uvars, lvars, avars>>

\* an operation ends: what its caller gets
EndOp(result) ==
  /\ opPc' = "done"
  /\ opResult' = result
  /\ inFlight' = inFlight - 1
  /\ UNCHANGED uvars

GetProfile ==
  /\ StartOp(TextOp("getProfile", Null, Null, NoOptions), IdentityRequest, "final")
  /\ authorUrn' = Null

\* createPost is called: getMemberUrn issues the identity request
CreatePost(options) ==
  /\ StartOp(TextOp("createPost", Null, Null, options), IdentityRequest, "identity")
  /\ authorUrn' = Null

\* a createOrganizationPost that looks the member up first
CreateOrganizationPost_WithLookup(organizationId, options) ==
  /\ StartOp(TextOp("createOrganizationPost", organizationId, Null, options),
             IdentityRequest, "identity")
  /\ authorUrn' = OrgUrn(organizationId)

CreateOrganizationPost(organizationId, options) ==
  /\ StartOp(TextOp("createOrganizationPost", organizationId, Null, options),
             PostRequest(createOrganizationPostPayload(OrgUrn(organizationId), options)),
             "final")
  /\ authorUrn' = OrgUrn(organizationId)

DeletePost(postId) ==
  /\ StartOp(TextOp("deletePost", Null, postId, NoOptions),
             ApiRequest("delete", "DELETE", <<"/ugcPosts/", postId>>, NoBody), "final")
  /\ authorUrn' = Null

\* an identity answer after which the post is submitted whatever it was
IdentityResponse_PostAnyway(response) ==
  /\ opPc = "identity"
  /\ respLog' = Append(respLog, response)
  /\ authorUrn' = PersonUrn("undefined")
  /\ opPc' = "final"
  /\ reqLog' = Append(reqLog, PostRequest(createPostPayload(PersonUrn("undefined"), op.options)))
  /\ UNCHANGED <<op, inFlight, opResult, uploadUrl, asset, client, uvars, lvars, avars>>

\* the identity request of createPost settles: getMemberUrn reads profile.sub
\* and the post is submitted
IdentityResponse(response) ==
  LET profile == request(response)
      urn == PersonUrn(TemplateValue(profile.value.sub))
  IN /\ opPc = "identity"
     /\ respLog' = Append(respLog, response)
     /\ UNCHANGED <<op, uploadUrl, asset, client, lvars, avars>>
     /\ IF profile.threw
        THEN /\ EndOp(profile)
             /\ UNCHANGED <<authorUrn, reqLog>>
        ELSE IF profile.value.kind = "null"
        THEN /\ EndOp(Thrown("TypeError", 0, "Cannot read properties of null (reading 'sub')"))
             /\ UNCHANGED <<authorUrn, reqLog>>
        ELSE /\ authorUrn' = urn
             /\ opPc' = "final"
             /\ reqLog' = Append(reqLog, PostRequest(createPostPayload(urn, op.options)))
             /\ UNCHANGED <<inFlight, opResult, uvars>>

\* the last request of an operation settles; deletePost returns nothing
FinalResponse(response) ==
  LET result == request(response)
  IN /\ opPc = "final"
     /\ respLog' = Append(respLog, response)
     /\ EndOp(IF op.name = "deletePost" /\ ~result.threw THEN Returned(UndefinedValue) ELSE result)
     /\ UNCHANGED <<op, reqLog, authorUrn, uploadUrl, asset, client, lvars, avars>>

-----------------------------------------------------------------------------
\* Initial states and specifications

ListenerIdle ==
  /\ srv = "idle"
  /\ srvPort = 0
  /\ expected = Null
  /\ promise = Pending
  /\ settledBy = "none"
  /\ timer = "none"
  /\ closeCalls = 0
  /\ conns = 0
  /\ deadline = 0
  /\ lastStatus = 0
  /\ lastReq = NoReq

ClientIdle ==
  /\ op = NoOp
  /\ opPc = "none"
  /\ reqLog = <<>>
  /\ respLog = <<>>
  /\ inFlight = 0
  /\ authorUrn = Null
  /\ uploadUrl = Null
  /\ asset = Null
  /\ opResult = "none"
  /\ client = "none"

\* records a store can hold when a command starts: a token that is still
\* good, one that has expired, one without a refresh token
InitRecords ==
  {Tokens("a1", 900, "r1", 0), Tokens("a1", 600, "r1", -600000), Tokens("a1", 900, Null, 0)}

InitFiles == {NoFile, File(Corrupt)} \cup {File(JSONStringify(t)) : t \in InitRecords}

\* a file exists only in a directory that exists; a directory that is there
\* when a command starts has the mode mkdir -p gave it
InitLayouts ==
  {f \in [clawDir : BOOLEAN, clawDirMode : {Null, "755"}, moltDir : BOOLEAN,
           clawFile : InitFiles, moltFile : InitFiles] :
     /\ f.clawDir <=> f.clawDirMode # Null
     /\ f.clawFile.exists => f.clawDir
     /\ f.moltFile.exists => f.moltDir}

EmptyLayout ==
  [clawDir |-> FALSE, clawDirMode |-> Null, moltDir |-> FALSE, clawFile |-> NoFile,
   moltFile |-> NoFile]

AuthIdle(layout, e) ==
  /\ fs = layout
  /\ env = e
  /\ now = 0
  /\ pc = "idle"
  /\ manual = FALSE
  /\ authState = Null
  /\ urlState = Null
  /\ redirectUri = <<>>
  /\ code = Null
  /\ fsAtStart = layout
  /\ exitCode = -1
  /\ cmd = "none"
  /\ tokenResp = "none"

NoCall == [fn |-> "none", arg |-> Null, result |-> Null, before |-> EmptyLayout]

NoCalls ==
  /\ prevCall = NoCall
  /\ lastCall = NoCall

\* one call of startCallbackServer and its environment
ListenerInit ==
  /\ NoCalls
  /\ ListenerIdle
  /\ AuthIdle(EmptyLayout, TRUE)
  /\ ClientIdle

ListenerNext ==
  \/ \E port \in Ports, s \in States, bindOk \in BOOLEAN : StartCallbackServer(port, s, bindOk)
  \/ Connect
  \/ Disconnect
  \/ \E req \in Requests : HandleRequest(req)
  \/ ServerError
  \/ TimerFire
  \/ Tick

ListenerSpec == ListenerInit /\ [][ListenerNext]_vars

\* a due timer runs, and time passes, as long as the process lives
FairListenerSpec == ListenerSpec /\ WF_vars(TimerFire) /\ WF_vars(Tick)

\* isTokenExpired and isTokenExpiringSoon, called on a record at an instant
ExpiresIns == {300, 3600, 5 * 24 * 60 * 60, 7 * 24 * 60 * 60}
LongExpiresIns == {30 * 24 * 60 * 60, 60 * 24 * 60 * 60}
CreatedAts == {0, 1000}
ExpiryRecords == {Tokens("a1", e, Null, c) : e \in ExpiresIns, c \in CreatedAts}
LongLivedRecords == {Tokens("a1", e, Null, c) : e \in LongExpiresIns, c \in CreatedAts}
ExpiryInstants ==
  {0, 999, 1000, 3299000, 3299999, 3300000, 3594000, 3595000, 3600000, 7200000}

CallIsTokenExpired(t) ==
  /\ prevCall' = lastCall
  /\ lastCall' = [fn |-> "isTokenExpired", arg |-> t,
                  result |-> isTokenExpired(t, now), before |-> fs]
  /\ UNCHANGED <<lvars, avars, cvars>>

CallIsTokenExpiringSoon(t) ==
  /\ prevCall' = lastCall
  /\ lastCall' = [fn |-> "isTokenExpiringSoon", arg |-> t,
                  result |-> isTokenExpiringSoon(t, now), before |-> fs]
  /\ UNCHANGED <<lvars, avars, cvars>>

ExpiryInit ==
  /\ NoCalls
  /\ ListenerIdle
  /\ ClientIdle
  /\ \E t \in ExpiryInstants :
       /\ now = t
       /\ fs = EmptyLayout
       /\ env = TRUE
       /\ pc = "idle"
       /\ manual = FALSE
       /\ authState = Null
       /\ urlState = Null
       /\ redirectUri = <<>>
       /\ code = Null
       /\ fsAtStart = EmptyLayout
       /\ exitCode = -1
       /\ cmd = "none"
       /\ tokenResp = "none"

ExpiryNext ==
  \/ \E t \in ExpiryRecords : CallIsTokenExpired(t)
  \/ \E t \in ExpiryRecords \cup LongLivedRecords : CallIsTokenExpiringSoon(t)

ExpirySpec == ExpiryInit /\ [][ExpiryNext]_vars

\* saveTokens, loadTokens and deleteTokens, called in any order on one store
SaveRecords == {Tokens("a2", 3600, "r2", 1000), Tokens("a3", 7200, Null, 1000)}

\* at most one linkedin.json, in a directory that exists
StoreLayouts ==
  {f \in [clawDir : BOOLEAN, clawDirMode : {Null, "755"}, moltDir : BOOLEAN,
           clawFile : InitFiles, moltFile : InitFiles] :
     /\ f.clawDir <=> f.clawDirMode # Null
     /\ f.clawFile.exists => f.clawDir
     /\ f.moltFile.exists => f.moltDir
     /\ ~(f.clawFile.exists /\ f.moltFile.exists)}

CallSaveTokens(t) ==
  /\ prevCall' = lastCall
  /\ lastCall' = [fn |-> "saveTokens", arg |-> t, result |-> Null, before |-> fs]
  /\ fs' = saveTokens(fs, t)
  /\ UNCHANGED <<env, now, pc, manual, authState, urlState, redirectUri, code, fsAtStart, exitCode, cmd, tokenResp>>
  /\ UNCHANGED <<lvars, cvars>>

CallLoadTokens ==
  /\ prevCall' = lastCall
  /\ lastCall' = [fn |-> "loadTokens", arg |-> Null, result |-> loadTokens(fs), before |-> fs]
  /\ UNCHANGED <<lvars, avars, cvars>>

CallDeleteTokens ==
  /\ prevCall' = lastCall
  /\ lastCall' = [fn |-> "deleteTokens", arg |-> Null, result |-> deleteTokens(fs).result,
                  before |-> fs]
  /\ fs' = deleteTokens(fs).fs
  /\ UNCHANGED <<env, now, pc, manual, authState, urlState, redirectUri, code, fsAtStart, exitCode, cmd, tokenResp>>
  /\ UNCHANGED <<lvars, cvars>>

StoreInit ==
  /\ NoCalls
  /\ ListenerIdle
  /\ ClientIdle
  /\ \E layout \in StoreLayouts : AuthIdle(layout, TRUE)

StoreNext ==
  \/ \E t \in SaveRecords : CallSaveTokens(t)
  \/ CallLoadTokens
  \/ CallDeleteTokens

StoreSpec == StoreInit /\ [][StoreNext]_vars

\* saveTokens taken one system call at a time, on a machine that can stop
\* between any two of them

\* a file written by hand as the README shows (cat > linkedin.json), under the
\* usual umask of 022
HandWrittenFile == FileWithMode(JSONStringify(Tokens("a1", 900, "r1", 0)), "644")

SaveFiles == {NoFile, File(JSONStringify(Tokens("a1", 900, "r1", 0))), HandWrittenFile}

SaveLayouts ==
  {f \in [clawDir : BOOLEAN, clawDirMode : {Null, "755"}, moltDir : BOOLEAN,
           clawFile : SaveFiles, moltFile : SaveFiles] :
     /\ f.clawDir <=> f.clawDirMode # Null
     /\ f.clawFile.exists => f.clawDir
     /\ f.moltFile.exists => f.moltDir
     /\ ~(f.clawFile.exists /\ f.moltFile.exists)}

\* the text of the file when the first k members of JSON.stringify(t) have
\* reached it: short of the last, the text breaks off inside the next member
WrittenSoFar(t, k) ==
  LET data == JSONStringify(t)
  IN IF k >= Len(data) THEN data
     ELSE SubSeq(data, 1, k) \o <<<<data[k + 1][1]>>>>

\* the members that are whole in a text
MembersWritten(c) == Cardinality({i \in 1..Len(c) : Len(c[i]) = 2})

SaveInProgress == lastCall.fn = "saveTokens" /\ lastCall.result = "writing"

\* saveTokens up to the open of writeFileSync: the directory is made if it is
\* missing, the file is created or emptied
SaveOpen(t) ==
  /\ ~SaveInProgress
  /\ prevCall' = lastCall
  /\ lastCall' = [fn |-> "saveTokens", arg |-> t, result |-> "writing", before |-> fs]
  /\ fs' = IF getCredentialsDir(fs) = "claw"
           THEN LET d == IF fs.clawDir THEN fs ELSE MkdirSync(fs)
                IN [d EXCEPT !.clawFile = OpenTruncate(fs.clawFile)]
           ELSE [fs EXCEPT !.moltFile = OpenTruncate(fs.moltFile)]
  /\ UNCHANGED <<env, now, pc, manual, authState, urlState, redirectUri, code, fsAtStart, exitCode, cmd, tokenResp>>
  /\ UNCHANGED <<lvars, cvars>>

\* writeFileSync writes on: one more member reaches the file; after the last,
\* the file is closed and saveTokens returns
SaveWrite ==
  /\ SaveInProgress
  /\ LET claw == getCredentialsDir(lastCall.before) = "claw"
         file == IF claw THEN fs.clawFile ELSE fs.moltFile
         k == IF file.content = <<>> THEN 1 ELSE MembersWritten(file.content) + 1
         text == WrittenSoFar(lastCall.arg, k)
     IN /\ fs' = IF claw THEN [fs EXCEPT !.clawFile.content = text]
                 ELSE [fs EXCEPT !.moltFile.content = text]
        /\ lastCall' = [lastCall EXCEPT !.result = IF text = JSONStringify(lastCall.arg)
                                                    THEN "done" ELSE "writing"]
  /\ UNCHANGED prevCall
  /\ UNCHANGED <<env, now, pc, manual, authState, urlState, redirectUri, code, fsAtStart, exitCode, cmd, tokenResp>>
  /\ UNCHANGED <<lvars, cvars>>

\* the process is killed, or the machine loses power, while saveTokens runs
Crash ==
  /\ SaveInProgress
  /\ lastCall' = [lastCall EXCEPT !.result = "crashed"]
  /\ UNCHANGED prevCall
  /\ UNCHANGED <<lvars, avars, cvars>>

SaveInit ==
  /\ NoCalls
  /\ ListenerIdle
  /\ ClientIdle
  /\ \E layout \in SaveLayouts : AuthIdle(layout, TRUE)

SaveNext ==
  \/ \E t \in SaveRecords : SaveOpen(t)
  \/ SaveWrite
  \/ Crash

SaveSpec == SaveInit /\ [][SaveNext]_vars

\* exchangeCodeForToken and refreshAccessToken, called on their own

\* what the token endpoint can send back: a status and a body, the body being
\* the members of a JSON object or a text that is no JSON
TokenBodies ==
  {<<<<"access_token", "a2">>, <<"expires_in", 900>>>>,
   <<<<"access_token", "a2">>, <<"expires_in", 900>>, <<"refresh_token", "r2">>>>,
   <<<<"error", "invalid_grant">>>>,
   Corrupt}

TokenResponses ==
  {[rejected |-> TRUE, status |-> 0, text |-> <<>>]}
  \cup {[rejected |-> FALSE, status |-> st, text |-> t] : st \in {200, 400}, t \in TokenBodies}

\* the POST to the token endpoint and what both functions do with its answer
TokenRequest(failure, response, time) ==
  IF response.rejected THEN Thrown("TypeError", 0, <<"fetch failed">>)
  ELSE IF ~ResponseOk(response)
  THEN Thrown("Error", 0, <<failure, response.text>>)
  ELSE IF ~WellFormed(response.text)
  THEN Thrown("SyntaxError", 0, <<"Unexpected token">>)
  ELSE Returned([JSONParse(response.text) EXCEPT !.created_at = time])

exchangeCodeForToken(c, response, time) ==
  TokenRequest("Token exchange failed: ", response, time)

refreshAccessToken(refreshToken, response, time) ==
  TokenRequest("Token refresh failed: ", response, time)

\* an exchange that stores what it returns
CallExchangeCodeForToken_Saves(c, response) ==
  /\ prevCall' = lastCall
  /\ lastCall' = [fn |-> "exchangeCodeForToken", arg |-> [code |-> c, response |-> response],
                  result |-> exchangeCodeForToken(c, response, now), before |-> fs]
  /\ fs' = IF exchangeCodeForToken(c, response, now).threw THEN fs
           ELSE saveTokens(fs, exchangeCodeForToken(c, response, now).value)
  /\ UNCHANGED <<env, now, pc, manual, authState, urlState, redirectUri, code, fsAtStart, exitCode, cmd, tokenResp>>
  /\ UNCHANGED <<lvars, cvars>>

CallExchangeCodeForToken(c, response) ==
  /\ prevCall' = lastCall
  /\ lastCall' = [fn |-> "exchangeCodeForToken", arg |-> [code |-> c, response |-> response],
                  result |-> exchangeCodeForToken(c, response, now), before |-> fs]
  /\ UNCHANGED <<lvars, avars, cvars>>

CallRefreshAccessToken(refreshToken, response) ==
  /\ prevCall' = lastCall
  /\ lastCall' = [fn |-> "refreshAccessToken",
                  arg |-> [code |-> refreshToken, response |-> response],
                  result |-> refreshAccessToken(refreshToken, response, now), before |-> fs]
  /\ UNCHANGED <<lvars, avars, cvars>>

TokenLayouts ==
  {f \in StoreLayouts :
     /\ f.clawFile \in {NoFile, File(JSONStringify(Tokens("a1", 900, "r1", 0)))}
     /\ ~f.moltFile.exists}

TokenInit ==
  /\ NoCalls
  /\ ListenerIdle
  /\ ClientIdle
  /\ \E layout \in TokenLayouts : AuthIdle(layout, TRUE)

TokenNext ==
  \/ \E response \in TokenResponses : CallExchangeCodeForToken("c1", response)
  \/ \E response \in TokenResponses : CallRefreshAccessToken("r1", response)
  \/ Tick

TokenSpec == TokenInit /\ [][TokenNext]_vars

\* the auth commands, run one after the other on one installation
Init ==
  /\ NoCalls
  /\ ListenerIdle
  /\ \E layout \in InitLayouts, e \in BOOLEAN : AuthIdle(layout, e)
  /\ ClientIdle

Next ==
  \/ \E m \in BOOLEAN, port \in PortOptions, bindOk \in BOOLEAN, s \in States :
       LoginStart(m, port, bindOk, s)
  \/ \E answer \in Codes \cup {""} : LoginPaste(answer)
  \/ LoginAbort
  \/ LoginCallback
  \/ \E outcome \in TokenOutcomes, data \in TokenData : LoginExchange(outcome, data)
  \/ ProcessEnd
  \/ RefreshStart
  \/ \E outcome \in TokenOutcomes, data \in TokenData : RefreshRespond(outcome, data)
  \/ Logout
  \/ Connect
  \/ Disconnect
  \/ \E req \in LoginRequests : HandleRequest(req)
  \/ ServerError
  \/ TimerFire
  \/ Tick

Spec == Init /\ [][Next]_vars

\* the operations of one LinkedInClient, run one after the other
\* the stores a client is constructed on: no file, a good canonical record, an
\* expired one, a good record in the legacy place only, an unparsable file
ClientLayouts ==
  {f \in InitLayouts :
     \/ f = EmptyLayout
     \/ f.clawDir /\ ~f.moltDir /\ f.clawFile.exists
     \/ ~f.clawDir /\ f.moltDir /\ f.moltFile = File(JSONStringify(Tokens("a1", 900, "r1", 0)))}

ClientInit ==
  /\ NoCalls
  /\ ListenerIdle
  /\ \E layout \in ClientLayouts : AuthIdle(layout, TRUE)
  /\ ClientIdle

ClientNext ==
  \/ \E given \in BOOLEAN, t \in InitRecords : Construct(given, t)
  \/ \E src \in ImageSources, ex \in BOOLEAN : CreateImagePost(src, ex)
  \/ \E orgId \in OrgIds, src \in ImageSources, ex \in BOOLEAN : CreateOrganizationImagePost(orgId, src, ex)
  \/ \E outcome \in Outcomes, sub \in Subs : ProfileResponse(outcome, sub)
  \/ \E outcome \in Outcomes, url \in UploadUrls, a \in Assets : RegisterResponse(outcome, url, a)
  \/ \E outcome \in Outcomes : FetchResponse(outcome)
  \/ \E outcome \in Outcomes : PutResponse(outcome)
  \/ \E outcome \in Outcomes : PublishResponse(outcome)

ClientSpec == ClientInit /\ [][ClientNext]_vars

\* the operations built on request alone, on a client constructed from a record
\* that is passed in
TextInit ==
  /\ NoCalls
  /\ ListenerIdle
  /\ AuthIdle(EmptyLayout, TRUE)
  /\ op = NoOp
  /\ opPc = "none"
  /\ reqLog = <<>>
  /\ respLog = <<>>
  /\ inFlight = 0
  /\ authorUrn = Null
  /\ uploadUrl = Null
  /\ asset = Null
  /\ opResult = NoResult
  /\ client = "ok"

TextNext ==
  \/ GetProfile
  \/ \E options \in PostOptions : CreatePost(options)
  \/ \E organizationId \in OrgIds, options \in PostOptions : CreateOrganizationPost(organizationId, options)
  \/ \E postId \in PostIds : DeletePost(postId)
  \/ \E response \in Responses : IdentityResponse(response)
  \/ \E response \in Responses : FinalResponse(response)

TextSpec == TextInit /\ [][TextNext]_vars

-----------------------------------------------------------------------------
\* Properties of the callback listener (ListenerSpec)

\* this step is the request handler, run for the request lastReq'
Handled == HandleRequest(lastReq')

\* C1: a request to the callback path whose state parameter is absent or
\* differs from the expected state never resolves the listener, whatever code
\* it carries: it rejects a listener that is still pending, and it never turns
\* the outcome into Resolved.
C1_MismatchedStateNeverResolves ==
  [][(Handled /\ lastReq'.path = "/callback" /\ lastReq'.state # expected)
       => /\ promise.kind = "pending" => promise'.kind = "rejected"
          /\ promise'.kind = "resolved" => promise' = promise]_vars

\* a forged redirect (valid code, wrong state, no error) has been rejected
C1_Witness ==
  /\ lastReq.path = "/callback"
  /\ lastReq.code \in Codes
  /\ lastReq.error = Null
  /\ lastReq.state \in States
  /\ lastReq.state # expected
  /\ settledBy = "request"
  /\ promise = Rejected(InvalidState)

\* C5: the callback and the timer are mutually exclusive: once a callback
\* request has settled the listener the timer's handler never runs, and once
\* the timer has fired no request settles the listener.
C5_CallbackAndTimerExclusive ==
  [][/\ (settledBy = "request" /\ timer = "armed") => timer' # "fired"
     /\ timer = "fired" => (settledBy' = "request" => settledBy = "request")]_vars

\* C6: server.close is never invoked again once the listener has been closed.
C6_ClosedExactlyOnce ==
  [][srv = "closed" => closeCalls' = closeCalls]_vars

\* C7: whenever the outcome is settled (resolved, rejected for any reason, or
\* timed out) the listener no longer holds its port.
C7_PortReleasedOnEveryOutcome ==
  promise.kind # "pending" => srv # "listening"

ErrorReason(req) ==
  IF Truthy(req.desc) THEN req.desc ELSE req.error

\* C9 as stated: a callback request carrying an error parameter is answered
\* with 400, closes the listener and rejects a pending listener with the
\* description (or the error code), whatever its state and code.
C9_ErrorParameterRejects ==
  [][(Handled /\ lastReq'.path = "/callback" /\ lastReq'.error # Null)
       => /\ lastStatus' = 400
          /\ srv' # "listening"
          /\ promise.kind = "pending" => promise' = Rejected(ErrorReason(lastReq'))]_vars

\* C9 (amended): the same for a callback request whose error parameter is not
\* empty; the reason is the description when that is not empty and the error
\* code otherwise.
C9_NonEmptyErrorRejects ==
  [][(Handled /\ lastReq'.path = "/callback" /\ Truthy(lastReq'.error))
       => /\ lastStatus' = 400
          /\ srv' # "listening"
          /\ closeCalls' = closeCalls + 1
          /\ promise.kind = "pending" => promise' = Rejected(ErrorReason(lastReq'))
          /\ promise'.kind = "resolved" => promise' = promise]_vars

\* a denied consent, arriving with the right state and a code, has rejected
\* the listener with its description
C9_Witness ==
  /\ lastReq.path = "/callback"
  /\ lastReq.error \in ErrorCodes
  /\ lastReq.desc \in Descriptions
  /\ lastReq.state = expected
  /\ lastReq.code \in Codes
  /\ settledBy = "request"
  /\ promise = Rejected(lastReq.desc)
  /\ lastStatus = 400
  /\ srv = "closed"

\* C10: a callback request without error, with the expected state and with a
\* missing or empty code rejects a pending listener with "no authorization
\* code", never resolves it, and closes the listener.
C10_MissingCodeRejects ==
  [][(Handled /\ lastReq'.path = "/callback" /\ ~Truthy(lastReq'.error)
        /\ lastReq'.state = expected /\ ~Truthy(lastReq'.code))
       => /\ srv' # "listening"
          /\ closeCalls' = closeCalls + 1
          /\ promise.kind = "pending" => promise' = Rejected(NoCode)
          /\ promise'.kind = "resolved" => promise' = promise]_vars

\* a redirect with the right state and an empty code has been rejected
C10_Witness ==
  /\ lastReq.path = "/callback"
  /\ lastReq.error = Null
  /\ lastReq.state = expected
  /\ lastReq.code = ""
  /\ settledBy = "request"
  /\ promise = Rejected(NoCode)
  /\ srv = "closed"

\* C11: a request to any other path is answered with 404 and changes nothing
\* else: the server keeps listening, the outcome stays as it was and nothing
\* is closed; and a valid callback request reaching a pending listener
\* resolves it with its code, however many such requests came before.
C11_OtherPathLeavesListenerOpen ==
  [][/\ (Handled /\ lastReq'.path # "/callback")
          => /\ lastStatus' = 404
             /\ <<srv, srvPort, expected, promise, settledBy, timer, closeCalls, deadline>>'
                  = <<srv, srvPort, expected, promise, settledBy, timer, closeCalls, deadline>>
     /\ (Handled /\ lastReq'.path = "/callback" /\ lastReq'.error = Null
           /\ lastReq'.state = expected /\ lastReq'.code \in Codes
           /\ promise.kind = "pending")
          => (promise' = Resolved(lastReq'.code) /\ lastStatus' = 200)]_vars

\* a request for another path has been answered with 404 while the listener
\* is still listening and pending, with a further connection open
C11_Witness ==
  /\ lastReq.path = "/favicon.ico"
  /\ lastStatus = 404
  /\ srv = "listening"
  /\ promise = Pending
  /\ closeCalls = 0
  /\ conns > 0

-----------------------------------------------------------------------------
\* Properties of request and the text-post operations (TextSpec)

\* the response that settled last
LastResponse == respLog[Len(respLog)]

\* the last response is a non-2xx response
NonOkAnswered == respLog # <<>> /\ ~LastResponse.rejected /\ ~ResponseOk(LastResponse)

\* C21: every non-2xx response makes the calling operation fail with an error
\* that carries the HTTP status and the message: the message field of the body
\* when the body parses as JSON and has one, the raw body text when it does not
\* parse.
C21_NonOkFailsWithStatusAndMessage ==
  NonOkAnswered =>
    LET parsed == JSONParseBody(LastResponse.text)
    IN /\ opPc = "done"
       /\ opResult.threw
       /\ opResult.status = LastResponse.status
       /\ (~parsed.throws /\ parsed.value.kind = "object" /\ Truthy(parsed.value.message))
            => opResult.message = parsed.value.message
       /\ parsed.throws => opResult.message = LastResponse.text

\* C23: a 2xx response with an empty body yields an empty result object and
\* never a parse error; deletePost succeeds on it after exactly one DELETE
\* request.
C23_EmptyBodyIsEmptyResult ==
  (respLog # <<>> /\ ~LastResponse.rejected /\ ResponseOk(LastResponse)
     /\ LastResponse.text = "") =>
    /\ opResult.type # "SyntaxError"
    /\ opPc = "done" => ~opResult.threw
    /\ (opPc = "done" /\ op.name # "deletePost") => opResult.value = EmptyObject
    /\ op.name = "deletePost" =>
         /\ opPc = "done"
         /\ Len(reqLog) = 1
         /\ reqLog[1].method = "DELETE"
         /\ reqLog[1].url = <<"/ugcPosts/", op.postId>>

\* deletePost has succeeded on an empty 204 response
C23_Witness ==
  /\ op.name = "deletePost"
  /\ opPc = "done"
  /\ respLog = <<[rejected |-> FALSE, status |-> 204, text |-> ""]>>
  /\ ~opResult.threw

\* the identity request of the running operation was answered with a profile
IdentityOk ==
  /\ Len(respLog) >= 1
  /\ ~respLog[1].rejected
  /\ ResponseOk(respLog[1])
  /\ respLog[1].text = "" \/ JSONParseBody(respLog[1].text).value.kind = "object"

\* C24: createPost issues the identity request first and the post-creation
\* request second and nothing else; the post's author is urn:li:person:<sub>
\* of the identity response; the result is the post endpoint's response; if
\* the identity request fails no post-creation request is issued.
C24_CreatePostIdentityThenPost ==
  (op.name = "createPost") =>
    /\ reqLog[1] = IdentityRequest
    /\ Len(reqLog) <= 2
    /\ Len(reqLog) = 2 =>
         /\ IdentityOk
         /\ reqLog[2].kind = "publish" /\ reqLog[2].method = "POST" /\ reqLog[2].url = "/ugcPosts"
         /\ JSONParseBody(respLog[1].text).value.sub # Null =>
              reqLog[2].body.author = <<"urn:li:person:", JSONParseBody(respLog[1].text).value.sub>>
    /\ (Len(respLog) >= 1 /\ ~IdentityOk) => (Len(reqLog) = 1 /\ opPc = "done" /\ opResult.threw)
    /\ (opPc = "done" /\ ~opResult.threw) =>
         /\ Len(reqLog) = 2 /\ Len(respLog) = 2
         /\ respLog[2].text # "" => opResult.value = JSONParseBody(respLog[2].text).value

\* createPost has returned the id the post endpoint answered with, for the
\* member the identity endpoint named
C24_Witness ==
  /\ op.name = "createPost"
  /\ opPc = "done"
  /\ Len(reqLog) = 2
  /\ reqLog[2].body.author = <<"urn:li:person:", "42">>
  /\ opResult.value.id = "urn:li:share:9"

\* an option is supplied: set, and not the empty string
Supplied(v) == v # Null /\ v # ""

\* C25: createPost's payload has media category ARTICLE with one media entry
\* for the URL iff articleUrl is supplied and NONE with no media otherwise; the
\* serialized entry has a title only when articleTitle is supplied and a
\* description only when articleDescription is supplied.
C25_ArticlePayload ==
  (op.name = "createPost" /\ Len(reqLog) = 2) =>
    LET body == reqLog[2].body
        o == op.options
    IN IF Supplied(o.articleUrl)
       THEN /\ body.shareMediaCategory = "ARTICLE"
            /\ Len(body.media) = 1
            /\ body.media[1].originalUrl = o.articleUrl
            /\ "title" \in DOMAIN body.media[1] <=> Supplied(o.articleTitle)
            /\ "description" \in DOMAIN body.media[1] <=> Supplied(o.articleDescription)
            /\ Supplied(o.articleTitle) => body.media[1].title = o.articleTitle
            /\ Supplied(o.articleDescription) => body.media[1].description = o.articleDescription
       ELSE /\ body.shareMediaCategory = "NONE"
            /\ body.media = <<>>

\* a post with an article URL and a title but no description has been submitted
C25_Witness ==
  /\ op.name = "createPost"
  /\ Len(reqLog) = 2
  /\ op.options.articleUrl = "https://a"
  /\ op.options.articleTitle = "T"
  /\ op.options.articleDescription = Null
  /\ DOMAIN reqLog[2].body.media[1] = {"status", "originalUrl", "title"}

\* C26: createOrganizationPost issues exactly one upstream request, the post
\* creation, with author urn:li:organization:<orgId>, and never an
\* identity-lookup request.
C26_OrganizationPostSingleRequest ==
  (op.name = "createOrganizationPost") =>
    /\ Len(reqLog) = 1
    /\ reqLog[1].kind = "publish" /\ reqLog[1].method = "POST" /\ reqLog[1].url = "/ugcPosts"
    /\ reqLog[1].body.author = <<"urn:li:organization:", op.orgId>>
    /\ \A i \in 1..Len(reqLog) : reqLog[i].kind # "userinfo"

\* an organization post has been created
C26_Witness ==
  /\ op.name = "createOrganizationPost"
  /\ op.orgId = "777"
  /\ opPc = "done"
  /\ ~opResult.threw
  /\ Len(respLog) = 1

\* C27: for every options value the payload of createOrganizationPost equals
\* the payload of createPost in every field except author, including the
\* switch of media category from NONE to ARTICLE when articleUrl is set.
C27_OrganizationPayloadSameShape ==
  (op.name = "createOrganizationPost" /\ reqLog[1].kind = "publish") =>
    [reqLog[1].body EXCEPT !.author = Null]
      = [createPostPayload(Null, op.options) EXCEPT !.author = Null]

-----------------------------------------------------------------------------
\* Properties of the expiry tests (ExpirySpec)

\* how long ago the record of the last call was created, in milliseconds
Age == now - lastCall.arg.created_at

\* C12: isTokenExpired(record) is true exactly when
\* now >= createdAt + expiresIn - 300 seconds.
C12_ExpiredIffWithinMargin ==
  lastCall.fn = "isTokenExpired" =>
    (lastCall.result <=>
       now >= lastCall.arg.created_at + (lastCall.arg.expires_in - 300) * 1000)

\* a record tested at the very instant the margin begins is expired
C12_Witness ==
  /\ lastCall.fn = "isTokenExpired"
  /\ now = lastCall.arg.created_at + (lastCall.arg.expires_in - 300) * 1000
  /\ lastCall.result = TRUE

\* C13 as stated: with expiresIn = 3600 a token created 3595 seconds ago is
\* expired and one created 3594 seconds ago is not.
C13_BoundaryAt3595 ==
  (lastCall.fn = "isTokenExpired" /\ lastCall.arg.expires_in = 3600) =>
    /\ Age = 3595 * 1000 => lastCall.result = TRUE
    /\ Age = 3594 * 1000 => lastCall.result = FALSE

\* C13 (amended): with expiresIn = 3600 a token created 3300 seconds ago is
\* expired and one created 3299 seconds ago is not; tokens created 3595 and
\* 3594 seconds ago are both expired.
C13_BoundaryAt3300 ==
  (lastCall.fn = "isTokenExpired" /\ lastCall.arg.expires_in = 3600) =>
    /\ Age = 3300 * 1000 => lastCall.result = TRUE
    /\ Age = 3299 * 1000 => lastCall.result = FALSE
    /\ Age \in {3594 * 1000, 3595 * 1000} => lastCall.result = TRUE

\* a one-hour token created 3299 seconds ago has been found not expired
C13_Witness ==
  /\ lastCall.fn = "isTokenExpired"
  /\ lastCall.arg.expires_in = 3600
  /\ Age = 3299 * 1000
  /\ lastCall.result = FALSE

\* C14: isTokenExpiringSoon(record) is true exactly when
\* createdAt + expiresIn <= now + 7 days; so it is true for every record that
\* isTokenExpired finds expired, and false for a 60-day token created now.
C14_ExpiringSoonIffWithinSevenDays ==
  lastCall.fn = "isTokenExpiringSoon" =>
    /\ lastCall.result <=>
         lastCall.arg.expires_in - 7 * 86400 <= Age \div 1000
    /\ (prevCall.fn = "isTokenExpired" /\ prevCall.arg = lastCall.arg
          /\ prevCall.result = TRUE) => lastCall.result = TRUE
    /\ (lastCall.arg.expires_in = 60 * 86400 /\ Age = 0) => lastCall.result = FALSE

\* a record found expired has then been found expiring soon
C14_Witness ==
  /\ prevCall.fn = "isTokenExpired"
  /\ prevCall.result = TRUE
  /\ lastCall.fn = "isTokenExpiringSoon"
  /\ lastCall.arg = prevCall.arg
  /\ lastCall.result = TRUE

-----------------------------------------------------------------------------
\* Properties of the credential store (StoreSpec)

\* the result of loadTokens that is a record equal to t
Loaded(t) == [found |-> TRUE, error |-> FALSE, tokens |-> t]

\* the result of loadTokens that is null
Absent == [found |-> FALSE, error |-> FALSE, tokens |-> NoTokens]

\* C15: from every layout of the canonical and legacy directories and files,
\* saveTokens(r) followed immediately by loadTokens() returns a record equal to
\* r in all fields.
C15_LoadReturnsLastSaved ==
  (prevCall.fn = "saveTokens" /\ lastCall.fn = "loadTokens") =>
    lastCall.result = Loaded(prevCall.arg)

\* a record was saved where only the legacy file existed, next to an existing
\* canonical directory, and then loaded
C15_Witness ==
  /\ prevCall.fn = "saveTokens"
  /\ prevCall.before.clawDir /\ prevCall.before.moltFile.exists
  /\ prevCall.arg.refresh_token = Null
  /\ lastCall.fn = "loadTokens"
  /\ lastCall.result = Loaded(prevCall.arg)

\* C16: after deleteTokens() returns, loadTokens() returns absent until the
\* next saveTokens.
C16_AbsentAfterDelete ==
  (prevCall.fn = "deleteTokens" /\ lastCall.fn = "loadTokens") =>
    lastCall.result = Absent

\* C17: deleteTokens() returns true iff a record existed before the call, and
\* a second consecutive deleteTokens() returns false and leaves storage
\* unchanged.
C17_DeleteIdempotent ==
  /\ lastCall.fn = "deleteTokens" =>
       (lastCall.result <=>
          (lastCall.before.clawFile.exists \/ lastCall.before.moltFile.exists))
  /\ (prevCall.fn = "deleteTokens" /\ lastCall.fn = "deleteTokens") =>
       (lastCall.result = FALSE /\ fs = lastCall.before)

\* C18: in every state reached by saves and deletes from a store with at most
\* one credential file, at most one credential file exists across the
\* canonical and legacy locations.
C18_AtMostOneFile == ~(fs.clawFile.exists /\ fs.moltFile.exists)

\* the file that loadTokens reads in a layout
FileRead(f) == IF f.clawFile.exists THEN f.clawFile ELSE f.moltFile

\* C19: loadTokens on an existing file that does not parse surfaces a parse
\* error and never returns absent.
C19_CorruptFileIsAnError ==
  (lastCall.fn = "loadTokens" /\ FileRead(lastCall.before).exists
     /\ ~WellFormed(FileRead(lastCall.before).content)) =>
    (lastCall.result.error /\ lastCall.result # Absent)

\* a corrupt legacy file has been loaded and the load threw
C19_Witness ==
  /\ lastCall.fn = "loadTokens"
  /\ ~lastCall.before.clawFile.exists
  /\ lastCall.before.moltFile = File(Corrupt)
  /\ lastCall.result.error

-----------------------------------------------------------------------------
\* Properties of the image-post operations (ClientSpec)

\* C2: when the PUT of the image bytes has failed (a non-success response or
\* a transport error), the operation has issued no publish request, and it
\* issues none afterwards: it has failed.
C2_NoPublishAfterFailedPut ==
  \A i \in 1..Len(respLog) :
    (reqLog[i].kind = "put" /\ respLog[i] # "ok")
      => /\ \A j \in 1..Len(reqLog) : reqLog[j].kind # "publish"
         /\ opPc = "done"
         /\ opResult = "error"

\* a personal image post whose PUT came back with a non-success status
C2_Witness ==
  /\ op.name = "createImagePost"
  /\ Len(respLog) = Len(reqLog)
  /\ reqLog[Len(reqLog)].kind = "put"
  /\ respLog[Len(respLog)] = "http_error"
  /\ opResult = "error"

\* this step constructs a client
Constructed ==
  /\ lastCall'.fn = "LinkedInClient"
  /\ Construct(lastCall'.arg.given, lastCall'.arg.tokens)

\* no credential file is stored in the layout
NoneStored(f) == ~f.clawFile.exists /\ ~f.moltFile.exists

\* the stored credential of the layout is a record that isTokenExpired finds
\* expired
StoredExpired(f) ==
  /\ FileRead(f).exists
  /\ WellFormed(FileRead(f).content)
  /\ isTokenExpired(JSONParse(FileRead(f).content), now)

\* C20 as stated: construction fails, issuing no request, when no credential is
\* supplied and none is stored, or when the supplied or stored credential is
\* expired; it succeeds otherwise; no request is issued without a client.
C20_ConstructionFailsIffAbsentOrExpired ==
  [][/\ Constructed =>
          /\ client' # "ok" <=>
               \/ ~lastCall'.arg.given /\ NoneStored(fs)
               \/ lastCall'.arg.given /\ isTokenExpired(lastCall'.arg.tokens, now)
               \/ ~lastCall'.arg.given /\ StoredExpired(fs)
          /\ reqLog' = reqLog /\ inFlight' = inFlight
     /\ reqLog' # reqLog => client = "ok"]_vars

\* C20 (amended): construction fails, issuing no request, when no credential is
\* supplied and none is stored or the stored file does not parse, or when the
\* supplied or stored credential is expired; it succeeds otherwise; no request
\* is issued without a client.
C20_ConstructionFailsIffAbsentCorruptOrExpired ==
  [][/\ Constructed =>
          /\ client' # "ok" <=>
               \/ ~lastCall'.arg.given /\ NoneStored(fs)
               \/ ~lastCall'.arg.given /\ FileRead(fs).exists
                    /\ ~WellFormed(FileRead(fs).content)
               \/ lastCall'.arg.given /\ isTokenExpired(lastCall'.arg.tokens, now)
               \/ ~lastCall'.arg.given /\ StoredExpired(fs)
          /\ reqLog' = reqLog /\ inFlight' = inFlight
     /\ reqLog' # reqLog => client = "ok"]_vars

\* a client constructed from the stored record of the legacy location has
\* issued its first request, after a construction on an expired record failed
C20_Witness ==
  /\ prevCall.fn = "LinkedInClient" /\ prevCall.arg.given /\ prevCall.result = "expired"
  /\ lastCall.fn = "LinkedInClient" /\ ~lastCall.arg.given /\ lastCall.result = "ok"
  /\ lastCall.before.moltFile.exists
  /\ client = "ok"
  /\ Len(reqLog) = 1

\* the positions in reqLog of the requests of a kind
Issued(kind) == {i \in 1..Len(reqLog) : reqLog[i].kind = kind}

\* C22: within one operation every upstream request is issued at most once;
\* after a failed response the operation issues no further request; no step of
\* an operation calls the token endpoint or writes the credential store.
C22_NoRetryNoImplicitRefresh ==
  [][/\ \A i, j \in 1..Len(reqLog') : reqLog'[i].kind = reqLog'[j].kind => i = j
     /\ \A i \in 1..Len(respLog') :
          respLog'[i] # "ok" =>
            /\ i = Len(respLog')
            /\ Len(reqLog') = i
            /\ opPc' = "done" /\ opResult' = "error"
     /\ (\E i \in 1..Len(respLog) : respLog[i] # "ok") =>
          (reqLog' = reqLog \/ (Len(reqLog') = 1 /\ respLog' = <<>>))
     /\ fs' = fs /\ tokenResp' = tokenResp /\ pc' = pc /\ cmd' = cmd]_vars

\* the registration of a personal image post was refused (for instance 401) and
\* the operation ended there
C22_Witness ==
  /\ op.name = "createImagePost"
  /\ Len(reqLog) = 2
  /\ reqLog[2].kind = "register"
  /\ respLog = <<"ok", "http_error">>
  /\ opPc = "done"
  /\ opResult = "error"

\* C28: the PUT is issued only after the registration was answered
\* successfully, the publish request only after the PUT was answered
\* successfully, and no two requests of an operation are in flight at once.
C28_StrictSequentialOrder ==
  /\ \A i \in Issued("put") :
       \E j \in Issued("register") : j < i /\ Len(respLog) >= j /\ respLog[j] = "ok"
  /\ \A i \in Issued("publish") :
       i > 1 /\ reqLog[i - 1].kind = "put" /\ Len(respLog) >= i - 1 /\ respLog[i - 1] = "ok"
  /\ inFlight <= 1
  /\ Len(reqLog) - Len(respLog) \in {0, 1}
  /\ Len(reqLog) - Len(respLog) = 1 <=> opPc \notin {"none", "done"}

\* the publish request of an organization image post is in flight, after its
\* registration, the fetch of the image and its PUT were answered
C28_Witness ==
  /\ op.name = "createOrganizationImagePost"
  /\ opPc = "publish"
  /\ Len(reqLog) = 4
  /\ respLog = <<"ok", "ok", "ok">>
  /\ inFlight = 1

\* C29: the publish request has media category IMAGE and embeds the asset of
\* this operation's registration response, and the PUT targets the upload URL
\* of that response; an operation starts without upload URL or asset, takes
\* them from its own registration response only, and sends at most one PUT.
C29_AssetAndUploadUrlOfOwnRegistration ==
  [][/\ \A i \in Issued("put")' : reqLog'[i].url = uploadUrl' /\ uploadUrl' \in UploadUrls
     /\ \A i \in Issued("publish")' :
          /\ reqLog'[i].shareMediaCategory = "IMAGE"
          /\ reqLog'[i].media = asset' /\ asset' \in Assets
     /\ Cardinality(Issued("put")') <= 1
     /\ (Len(reqLog') = 1 /\ respLog' = <<>>) => (uploadUrl' = Null /\ asset' = Null)
     /\ (uploadUrl' # uploadUrl \/ asset' # asset) =>
          \/ uploadUrl' = Null /\ asset' = Null /\ respLog' = <<>>
          \/ /\ opPc = "register" /\ uploadUrl = Null /\ asset = Null
             /\ respLog'[Len(respLog')] = "ok"]_vars

\* an image post has been published with the upload URL and the asset its own
\* registration answered with
C29_Witness ==
  /\ opPc = "done" /\ opResult = "ok"
  /\ uploadUrl = "https://upload/2"
  /\ asset = "urn:li:digitalmediaAsset:2"
  /\ \E i \in Issued("put") : reqLog[i].url = "https://upload/2"
  /\ \E i \in Issued("publish") : reqLog[i].media = "urn:li:digitalmediaAsset:2"

\* the kinds of the requests made to the upstream API, in order (the fetch of a
\* remote image goes to the image's own URL)
UpstreamKinds ==
  LET api == SelectSeq(reqLog, LAMBDA r : r.kind # "fetch")
  IN [i \in 1..Len(api) |-> api[i].kind]

\* C30 as stated: a successful createImagePost or createOrganizationImagePost
\* issues exactly the registration request, the PUT and the publish request to
\* the upstream API, in that order, and nothing else.
C30_ExactlyThreeRoundTrips ==
  (op.name \in {"createImagePost", "createOrganizationImagePost"} /\ opPc = "done"
     /\ opResult = "ok") =>
    UpstreamKinds = <<"register", "put", "publish">>

\* C30 (amended): a successful createOrganizationImagePost issues exactly the
\* registration request, the PUT and the publish request, in that order; a
\* successful createImagePost issues the identity request before these three;
\* every request was answered successfully before the next was issued.
C30_ThreeRoundTripsAfterIdentity ==
  (op.name \in {"createImagePost", "createOrganizationImagePost"} /\ opPc = "done"
     /\ opResult = "ok") =>
    /\ UpstreamKinds = IF op.name = "createImagePost"
                       THEN <<"userinfo", "register", "put", "publish">>
                       ELSE <<"register", "put", "publish">>
    /\ Len(respLog) = Len(reqLog)
    /\ \A i \in 1..Len(respLog) : respLog[i] = "ok"

\* a personal image post of a local file has succeeded
C30_Witness ==
  /\ op.name = "createImagePost"
  /\ isLocalPath(op.imageUrl)
  /\ opPc = "done" /\ opResult = "ok"
  /\ Len(reqLog) = 4

\* the image source of the running operation could not be read: its local file
\* was missing when the registration had succeeded, or the fetch of the remote
\* image was answered with a failure
ImageSourceFailed ==
  /\ op.name \in {"createImagePost", "createOrganizationImagePost"}
  /\ \/ /\ isLocalPath(op.imageUrl) /\ ~op.fileExists
        /\ \E j \in Issued("register") : Len(respLog) >= j /\ respLog[j] = "ok"
     \/ \E j \in Issued("fetch") : Len(respLog) >= j /\ respLog[j] # "ok"

\* C31: when the image source cannot be obtained (a local path whose file does
\* not exist, or a remote fetch answered with a non-success response) the
\* operation fails without a PUT and without a publish request; the asset that
\* was registered is kept as it is and no request follows the failure.
C31_ImageSourceFailureAborts ==
  ImageSourceFailed =>
    /\ opPc = "done" /\ opResult = "error"
    /\ Issued("put") = {} /\ Issued("publish") = {}
    /\ asset \in Assets
    /\ reqLog[Len(reqLog)].kind = IF isLocalPath(op.imageUrl) THEN "register" ELSE "fetch"
    /\ Len(respLog) = Len(reqLog)
    /\ inFlight = 0

\* an organization image post of a remote image ended when the fetch of the
\* image was answered with an HTTP failure, its asset registered
C31_Witness ==
  /\ op.name = "createOrganizationImagePost"
  /\ ~isLocalPath(op.imageUrl)
  /\ respLog = <<"ok", "http_error">>
  /\ opPc = "done" /\ opResult = "error"
  /\ asset = "urn:li:digitalmediaAsset:1"

-----------------------------------------------------------------------------
\* Properties of saveTokens under interruption, and of the modes it leaves
\* (SaveSpec)

\* the file saveTokens writes to, in a store
SavedFile(f) ==
  IF getCredentialsDir(lastCall.before) = "claw" THEN f.clawFile ELSE f.moltFile

\* C32: if the process crashes at any point during saveTokens, the credential
\* file afterwards holds either the complete previous record (or is absent as
\* before) or the complete new record, never a truncated or partially written
\* one.
C32_SaveIsCrashSafe ==
  (lastCall.fn = "saveTokens" /\ lastCall.result = "crashed") =>
    \/ SavedFile(fs) = SavedFile(lastCall.before)
    \/ SavedFile(fs).content = JSONStringify(lastCall.arg)

\* C33: after every saveTokens the credential file has mode 0600, whether it
\* was created or a prior file, possibly of a looser mode, was overwritten, and
\* a directory that saveTokens created has mode 0700.
C33_OwnerOnlyAfterSave ==
  (lastCall.fn = "saveTokens" /\ lastCall.result = "done") =>
    /\ SavedFile(fs).exists
    /\ SavedFile(fs).mode = "600"
    /\ (~lastCall.before.clawDir /\ fs.clawDir) => fs.clawDirMode = "700"

-----------------------------------------------------------------------------
\* Properties of the two token functions (TokenSpec)

\* this step is a call of exchangeCodeForToken or of refreshAccessToken (the
\* other steps are those of the clock)
TokenCalled ==
  /\ now' = now
  /\ lastCall'.fn \in {"exchangeCodeForToken", "refreshAccessToken"}

\* C34: exchangeCodeForToken and refreshAccessToken leave the credential store
\* as it is; on a success status they return the token response with
\* created_at set to the current time, on a non-success status they throw an
\* error whose message carries the body of the response.
C34_TokenFunctionsDoNotPersist ==
  [][TokenCalled =>
       LET response == lastCall'.arg.response
           result == lastCall'.result
       IN /\ fs' = fs
          /\ (~response.rejected /\ ResponseOk(response) /\ WellFormed(response.text)) =>
               /\ ~result.threw
               /\ result.value = Tokens(Field(response.text, "access_token", Null),
                                        Field(response.text, "expires_in", 0),
                                        Field(response.text, "refresh_token", Null), now)
          /\ (~response.rejected /\ ~ResponseOk(response)) =>
               /\ result.threw
               /\ result.message[2] = response.text
               /\ result.message[1] = IF lastCall'.fn = "exchangeCodeForToken"
                                      THEN "Token exchange failed: "
                                      ELSE "Token refresh failed: "]_vars

\* a refresh was answered with a new token at a later time while a record was
\* stored, after an exchange that was refused with invalid_grant
C34_Witness ==
  /\ lastCall.fn = "refreshAccessToken"
  /\ ~lastCall.result.threw
  /\ lastCall.result.value.created_at = now /\ now > 0
  /\ loadTokens(fs).tokens = Tokens("a1", 900, "r1", 0)
  /\ prevCall.fn = "exchangeCodeForToken"
  /\ prevCall.result.threw
  /\ prevCall.result.message = <<"Token exchange failed: ", <<<<"error", "invalid_grant">>>>>>

-----------------------------------------------------------------------------
\* Properties of the auth commands (Spec)

\* the record the store holds is a token response stamped with its creation
\* time
StoredIsComplete ==
  /\ loadTokens(fs).found
  /\ \E data \in TokenData, k \in 0..MaxTicks : loadTokens(fs).tokens = Stamp(data, k * TickMs)

\* C3: during and after a login the store differs from what the login found
\* only if exchangeCodeForToken has succeeded, and then it holds a complete
\* record; a login that ends with a failure has not obtained a token, so it
\* leaves the store exactly as it found it.
C3_LoginSavesOnlyAfterExchange ==
  cmd = "login" =>
    /\ tokenResp # "ok" => fs = fsAtStart
    /\ (pc = "idle" /\ exitCode # 0) => tokenResp # "ok"
    /\ fs # fsAtStart => StoredIsComplete

\* a login that found an expired credential has failed at the token exchange
C3_Witness ==
  /\ cmd = "login"
  /\ pc = "idle"
  /\ exitCode = 1
  /\ tokenResp \in {"http_error", "network_error", "bad_json"}
  /\ loadTokens(fsAtStart).found
  /\ fs = fsAtStart

\* C4: during and after a refresh the store differs from what the refresh
\* found only if refreshAccessToken has succeeded, and then it holds the
\* complete new record; a failed refresh leaves the store unchanged.
C4_RefreshSavesOnlyAfterSuccess ==
  cmd = "refresh" =>
    /\ tokenResp # "ok" => fs = fsAtStart
    /\ (pc = "idle" /\ exitCode # 0) => tokenResp # "ok"
    /\ fs # fsAtStart => StoredIsComplete

\* a refresh of a credential that is still valid has failed at the token
\* endpoint
C4_Witness ==
  /\ cmd = "refresh"
  /\ pc = "idle"
  /\ exitCode = 1
  /\ tokenResp \in {"http_error", "network_error", "bad_json"}
  /\ loadTokens(fsAtStart).found
  /\ ~isTokenExpired(loadTokens(fsAtStart).tokens, now)
  /\ fs = fsAtStart

\* C35: a login attempt ends with its outcome: once the credential is saved and
\* the success reported, the process does not stay alive waiting, so no timer,
\* listening server or open connection of the attempt is left to keep it
\* running; a failed attempt has exited with a non-zero code.
C35_LoginEndsWithItsOutcome ==
  /\ pc = "login_linger" => (timer # "armed" /\ srv # "listening" /\ conns = 0)
  /\ (cmd = "login" /\ pc = "idle" /\ tokenResp \notin {"none", "ok"}) => exitCode = 1

\* this step is the one in which a login or a refresh obtains its token
TokenObtained == tokenResp # "ok" /\ tokenResp' = "ok"

\* C37: each successful login or refresh overwrites the stored record as a
\* whole: the store then holds exactly the new token response stamped with
\* created_at = now, and no field of the previous record (such as a
\* refresh_token the new response lacks) is carried over.
C37_RecordReplacedWholesale ==
  [][TokenObtained =>
       \E data \in TokenData :
         /\ loadTokens(fs').found
         /\ loadTokens(fs').tokens = Stamp(data, now)
         /\ FileRead(fs').content = JSONStringify(Stamp(data, now))]_vars

\* a refresh of a record with a refresh token was answered without one, and
\* the store holds the new record, without a refresh token
C37_Witness ==
  /\ cmd = "refresh" /\ pc = "idle" /\ exitCode = 0
  /\ tokenResp = "ok"
  /\ loadTokens(fsAtStart).tokens.refresh_token = "r1"
  /\ loadTokens(fs).tokens.access_token = "a2"
  /\ loadTokens(fs).tokens.refresh_token = Null

\* C38: in the automatic and in the manual login path alike, the code that is
\* passed to exchangeCodeForToken is one the listener resolved with, which it
\* does only for a request whose state equals the generated state.
C38_ExchangeOnlyAfterStateCheck ==
  pc = "login_exchange" =>
    /\ promise = Resolved(code)
    /\ settledBy = "request"
    /\ expected = authState /\ authState \in States

\* the decimal text of a port number
RECURSIVE Decimal(_)
Decimal(n) ==
  IF n < 10 THEN <<Digits[n + 1]>>
  ELSE Decimal(n \div 10) \o <<Digits[(n % 10) + 1]>>

\* C39: within one automatic login exactly one CSRF state is generated: the
\* state in the authorization URL is the state the listener expects, and it
\* does not change while the attempt runs; the port in the redirect URI is the
\* port the listener binds.
C39_OneStateOnePort ==
  [][/\ authState \in States => authState' \in {authState, Null}
     /\ (pc' = "login_await" /\ srv' = "listening") =>
          /\ authState' \in States
          /\ urlState' = authState'
          /\ expected' = authState'
          /\ redirectUri' = <<"http://localhost:", Decimal(srvPort'), "/callback">>]_vars

\* this step is the start of the login command
LoginStarted == pc = "idle" /\ cmd' = "login" /\ now' = now

\* C40: a login started while a stored credential exists and is not expired
\* does nothing: no state is generated, no listener is started, no token
\* request is made and the store is unchanged; a login attempt starts only
\* when no credential is stored or the stored one is expired.
C40_LoginWhenLoggedInIsNoOp ==
  [][LoginStarted =>
       LET l == loadTokens(fs)
           valid == l.found /\ ~isTokenExpired(l.tokens, now)
       IN /\ valid =>
               /\ pc' = "idle" /\ exitCode' = 0
               /\ authState' = Null /\ urlState' = Null /\ redirectUri' = <<>>
               /\ srv' = "idle" /\ timer' = "none" /\ expected' = Null
               /\ tokenResp' = "none" /\ code' = Null
               /\ fs' = fs
          /\ pc' # "idle" => (~l.found \/ isTokenExpired(l.tokens, now))]_vars

\* a login found the record of an earlier refresh still good and ended at once
C40_Witness ==
  /\ cmd = "login" /\ pc = "idle" /\ exitCode = 0
  /\ tokenResp = "none"
  /\ loadTokens(fs).found
  /\ loadTokens(fs).tokens.access_token = "a2"
  /\ ~isTokenExpired(loadTokens(fs).tokens, now)
  /\ fs = fsAtStart
  /\ srv = "idle" /\ authState = Null

====
